---- MODULE Spec2Model ----
(***************************************************************************)
(* A model of the JSON-RPC 2.0 runtime issue9/jsonrpc: the envelope and    *)
(* its ID (jsonrpc.go), the handler and callback invocation (handler.go),  *)
(* the dispatch core Server (read, response, writeError, request) and the  *)
(* connection engine Conn (Send, Notify, Serve, serve).                    *)
(*                                                                         *)
(* The specifications share the definitions:                               *)
(*   Spec         the connection engine: one Conn over one Transport, its  *)
(*                Serve loop, the dispatch goroutines it spawns, callers   *)
(*                of Send / Notify and the cancellation of the context;    *)
(*   SpecServer   Server.read followed by Server.response on one           *)
(*                transport, sequentially, over a wide alphabet of         *)
(*                inbound envelopes;                                       *)
(*   SpecRegister Register, RegisterMatcher and the dispatch that follows; *)
(*   SpecStream   streamTransport: concurrent Write calls and Read over a  *)
(*                stream that carries what was written and more;           *)
(*   SpecFramed   Server.read over a header-framed streamTransport;        *)
(*   SpecPending  the Conn with two requests sent and their responses read;*)
(*   SpecClose    Spec with a caller that closes the transport again;      *)
(*   SpecID       ID.MarshalJSON followed by ID.UnmarshalJSON;             *)
(*   SpecUDP      udp.Read and udp.Write of the connectionless transport.  *)
(***************************************************************************)
EXTENDS Integers, Sequences, FiniteSets, TLC

VARIABLES
    servers,      \* Server.servers: method name -> handler
    matchers,     \* Server.matchers: sequence of [matcher, h]
    before,       \* Server.before: the name of the hook, "nil" when unset
    errHandler,   \* Server.errHandler # nil
    errlog,       \* Conn.errlog # nil
    unique,       \* state of the ID source given to NewServer
    callbacks,    \* Conn.callbacks: ID.String() -> callback (the index in sends of its Send)
    writes,       \* the Transport.Write calls made so far
    closed,       \* number of Transport.Close calls
    closeErr,     \* what the last Transport.Close call returned
    readLog,      \* what each Transport.Read call did (the deadline-exceeded ones left out)
    cancelled,    \* ctx.Done() is closed
    servePC,      \* position of Conn.Serve
    serveRet,     \* what Conn.Serve returns
    wg,           \* the WaitGroup counter of Serve
    tasks,        \* the goroutines spawned by Serve, in spawn order
    sends,        \* the calls of Conn.Send / Conn.Notify
    logged,       \* what conn.printErr handed to errlog
    errHandled,   \* the calls of Server.errHandler
    calls,        \* the invocations of user handlers
    panicked,     \* a goroutine panicked: the process is gone
    srvBody,      \* SpecServer: what the last Server.read returned
    registers,    \* SpecRegister: the calls of Server.Register
    header,       \* SpecStream: streamTransport.header
    out,          \* SpecStream: what was written to the stream, in order
    inbuf,        \* SpecStream: what the reading transport has not consumed yet
    sreads,       \* SpecStream: what each Read of the stream transport returned
    decErr,       \* SpecStream: the error the json.Decoder of the reading transport keeps
    outMux,       \* SpecStream: the Write call that holds streamTransport.outMux (0: none)
    outBroken,    \* SpecStream: the underlying writer has failed
    swrites,      \* SpecStream: the calls of streamTransport.Write
    peers,        \* SpecStream: number of messages a foreign peer has put on the stream
    deadlines,    \* Spec: Transport.Read calls of Serve that ended with os.ErrDeadlineExceeded
    idIn,         \* SpecID: the ID that is encoded
    idRecv,       \* SpecID: the ID the text is decoded into, as it was before
    idText,       \* SpecID: the JSON text ID.MarshalJSON returned
    idOut,        \* SpecID: the receiver after ID.UnmarshalJSON
    idPC,         \* SpecID: "new", "encoded", "decoded" or "failed"
    udpAddr,      \* SpecUDP: udp.addr, "nil" or the address of a client
    udpMux,       \* SpecUDP: udp.addrMux: w, Lock is held; r, the number of RLock holders
    udpRd,        \* SpecUDP: the udp.Read call of the serve loop: pc and the address it got
    udpIn,        \* SpecUDP: what ReadFromUDP returned, call by call
    udpTasks,     \* SpecUDP: the goroutines that write, each in its udp.Write call
    udpSent       \* SpecUDP: the datagrams WriteToUDP sent

vars == <<servers, matchers, before, errHandler, errlog, unique, callbacks,
          writes, closed, closeErr, readLog, cancelled, servePC, serveRet, wg, tasks,
          sends, logged, errHandled, calls, panicked, srvBody, registers,
          header, out, inbuf, sreads, decErr, outMux, outBroken, swrites, peers,
          deadlines, idIn, idRecv, idText, idOut, idPC,
          udpAddr, udpMux, udpRd, udpIn, udpTasks, udpSent>>

(***************************************************************************)
(* Bounds of the model.                                                    *)
(***************************************************************************)
MaxReads == 2      \* Transport.Read calls that yield an envelope or an error
MaxSends == 1      \* Conn.Send / Conn.Notify calls
MaxDeadlines == 1  \* Reads of Serve counted when they end with the deadline
MaxInt == 9        \* integers the JSON codec of the model knows: 0..MaxInt

(***************************************************************************)
(* jsonrpc.go: constants.                                                  *)
(***************************************************************************)
Version == "2.0"
CodeParseError == -32700
CodeInvalidRequest == -32600
CodeMethodNotFound == -32601
CodeInvalidParams == -32602
CodeInternalError == -32603

(***************************************************************************)
(* Go values.  A pointer is a record with a field nil.                     *)
(***************************************************************************)
\* *ID
NilID == [nil |-> TRUE, isNumber |-> FALSE, number |-> 0, alpha |-> ""]
NumID(n) == [nil |-> FALSE, isNumber |-> TRUE, number |-> n, alpha |-> ""]
StrID(s) == [nil |-> FALSE, isNumber |-> FALSE, number |-> 0, alpha |-> s]

\* *json.RawMessage
NilRaw == [nil |-> TRUE, json |-> ""]
Raw(s) == [nil |-> FALSE, json |-> s]

\* *Error
NilError == [nil |-> TRUE, Code |-> 0, Message |-> "", Data |-> ""]
NewErrorWithData(code, msg, data) ==
    [nil |-> FALSE, Code |-> code, Message |-> msg, Data |-> data]
NewError(code, msg) == NewErrorWithData(code, msg, "")

\* error: nil, an *Error, os.ErrDeadlineExceeded or any other error
ErrNil == [kind |-> "nil", e |-> NilError, text |-> ""]
ErrOf(e) == [kind |-> "Error", e |-> e, text |-> e.Message]
ErrPlain(text) == [kind |-> "plain", e |-> NilError, text |-> text]
ErrDeadline == [kind |-> "deadline", e |-> NilError, text |-> "i/o timeout"]

\* NewErrorWithError that wraps an *Error like any other error.
NewErrorWithError_Wraps(code, err) == NewError(code, err.text)

NewErrorWithError(code, err) ==
    IF err.kind = "Error" THEN err.e ELSE NewError(code, err.text)

\* body.isRequest that takes every envelope with an ID for a request.
isRequest_HasID(b) == b.Method # "" \/ ~b.Params.nil \/ ~b.ID.nil

\* body
Body(v, id, m, p, r, e) ==
    [Version |-> v, ID |-> id, Method |-> m, Params |-> p, Result |-> r, Error |-> e]
NoBody == [none |-> TRUE]
EmptyBody == Body("", NilID, "", NilRaw, NilRaw, NilError)

isRequest(b) == b.Method # "" \/ ~b.Params.nil

\* body.isEmptyRequest that does not look at the version.
isEmptyRequest_NoVersion(b) ==
    b.ID.nil /\ b.Method = "" /\ b.Params.nil

isEmptyRequest(b) ==
    b.Version = "" /\ b.ID.nil /\ b.Method = "" /\ b.Params.nil

\* ID.Equal
Equal(id, val) ==
    IF id.isNumber # val.isNumber THEN FALSE
    ELSE IF id.isNumber THEN id.number = val.number
    ELSE id.alpha = val.alpha

\* strconv.FormatInt(n, 10)
Digit == <<"0", "1", "2", "3", "4", "5", "6", "7", "8", "9">>
RECURSIVE FormatInt(_)
FormatInt(n) ==
    IF n < 0 THEN "-" \o FormatInt(0 - n)
    ELSE IF n < 10 THEN Digit[n + 1]
    ELSE FormatInt(n \div 10) \o Digit[(n % 10) + 1]

\* ID.String.  The receiver is dereferenced: a nil *ID panics.
IDStringPanics(id) == id.nil
IDString(id) == IF id.isNumber THEN FormatInt(id.number) ELSE id.alpha

(***************************************************************************)
(* encoding/json, for the shape int: the decimal numerals of 0..MaxInt     *)
(* decode to their value, every other text (malformed JSON, a JSON string) *)
(* fails to decode.  NaN stands for a float64 NaN, which does not encode.  *)
(***************************************************************************)
IntVal(n) == [nan |-> FALSE, n |-> n]
NaN == [nan |-> TRUE, n |-> 0]
Ints == 0..MaxInt
UnmarshalInt(raw) ==
    IF \E n \in Ints : FormatInt(n) = raw
    THEN [ok |-> TRUE, v |-> CHOOSE n \in Ints : FormatInt(n) = raw]
    ELSE [ok |-> FALSE, v |-> 0]
Marshal(v) ==
    IF v.nan THEN [ok |-> FALSE, json |-> ""]
    ELSE [ok |-> TRUE, json |-> FormatInt(v.n)]

(***************************************************************************)
(* The user functions registered by the tests (part_015 initServer,        *)
(* handler_test.go): what each returns for the decoded params.             *)
(***************************************************************************)
HandlerF(h, notify, in) ==
    CASE h = "inc"      -> [err |-> ErrNil, out |-> IntVal(in + 1)]
      [] h = "errError" -> [err |-> ErrOf(NewError(CodeInvalidParams, "invalid params")),
                            out |-> IntVal(0)]
      [] h = "errPlain" -> [err |-> ErrPlain("error"), out |-> IntVal(0)]
      [] h = "nan"      -> [err |-> ErrNil, out |-> NaN]

\* The hook TestServer_response registers with RegisterBefore.
BeforeHook(method) ==
    CASE method = "b2" -> ErrOf(NewError(-32111, "not found"))
      [] method = "b5" -> ErrPlain("f5")
      [] OTHER -> ErrNil

\* handler.call: the response (NoBody for nil), the error, and the call of
\* the user function it made (none when the params do not decode).
HandlerCall(h, req) ==
    LET u == IF req.Params.nil THEN [ok |-> TRUE, v |-> 0]
             ELSE UnmarshalInt(req.Params.json)
        notify == req.ID.nil
        ret == HandlerF(h, notify, u.v)
        data == Marshal(ret.out)
        call == <<[h |-> h, notify |-> notify, in |-> u.v, req |-> req]>>
    IN  IF ~u.ok
        THEN [resp |-> NoBody, calls |-> <<>>,
              err |-> ErrOf(NewErrorWithError(CodeParseError, ErrPlain("invalid character")))]
        ELSE IF ret.err.kind # "nil"
        THEN [resp |-> NoBody, calls |-> call,
              err |-> ErrOf(NewErrorWithError(CodeInternalError, ret.err))]
        ELSE IF notify
        THEN [resp |-> NoBody, calls |-> call, err |-> ErrNil]
        ELSE IF ~data.ok
        THEN [resp |-> NoBody, calls |-> call,
              err |-> ErrOf(NewErrorWithError(CodeParseError, ErrPlain("unsupported value")))]
        ELSE [resp |-> Body(Version, req.ID, "", NilRaw, Raw(data.json), NilError),
              calls |-> call, err |-> ErrNil]

\* Server.writeError that loses the ID it is given.
WriteError_DropsID(id, code, err) ==
    Body(Version, NilID, "", NilRaw, NilRaw,
         IF err.kind = "Error" THEN err.e ELSE NewErrorWithData(code, err.text, ""))

\* Server.writeError that sets a null result next to the error.
WriteError_WithResult(id, code, err) ==
    Body(Version, id, "", NilRaw, Raw("null"),
         IF err.kind = "Error" THEN err.e ELSE NewErrorWithData(code, err.text, ""))

\* Server.writeError: the envelope it hands to Transport.Write.
WriteError(id, code, err) ==
    Body(Version, id, "", NilRaw, NilRaw,
         IF err.kind = "Error" THEN err.e ELSE NewErrorWithData(code, err.text, ""))

\* The handler Server.response resolves for a method: the exact-name table
\* first, then the first matcher, in order, whose predicate accepts.
RECURSIVE FirstMatch(_, _)
FirstMatch(ms, method) ==
    IF ms = <<>> THEN "nil"
    ELSE IF method \in Head(ms).matcher THEN Head(ms).h
    ELSE FirstMatch(Tail(ms), method)

\* Server.response that asks the matchers before the exact-name table.
Lookup_MatchersFirst(method) ==
    IF FirstMatch(matchers, method) # "nil" THEN FirstMatch(matchers, method)
    ELSE IF method \in DOMAIN servers THEN servers[method]
    ELSE "nil"

Lookup(method) ==
    IF method \in DOMAIN servers THEN servers[method]
    ELSE FirstMatch(matchers, method)

\* Server.response that calls the handler of a method the hook refused.
ServerResponse_IgnoresVeto(req) ==
    LET veto == IF before = "nil" THEN ErrNil ELSE BeforeHook(req.Method)
        h == Lookup(req.Method)
        r == HandlerCall(h, req)
    IN  IF h = "nil"
        THEN [write |-> WriteError(req.ID, CodeMethodNotFound,
                                   ErrPlain("method not found " \o req.Method)),
              calls |-> <<>>]
        ELSE IF veto.kind # "nil"
        THEN [write |-> WriteError(req.ID, CodeMethodNotFound, veto), calls |-> r.calls]
        ELSE IF r.err.kind # "nil"
        THEN [write |-> WriteError(req.ID, CodeParseError, r.err), calls |-> r.calls]
        ELSE [write |-> r.resp, calls |-> r.calls]

\* Server.response: the envelope given to Transport.Write (NoBody: none)
\* and the user functions called.
ServerResponse(req) ==
    LET veto == IF before = "nil" THEN ErrNil ELSE BeforeHook(req.Method)
        h == Lookup(req.Method)
        r == HandlerCall(h, req)
    IN  IF veto.kind # "nil"
        THEN [write |-> WriteError(req.ID, CodeMethodNotFound, veto), calls |-> <<>>]
        ELSE IF h = "nil"
        THEN [write |-> WriteError(req.ID, CodeMethodNotFound,
                                   ErrPlain("method not found " \o req.Method)),
              calls |-> <<>>]
        ELSE IF r.err.kind # "nil"
        THEN [write |-> WriteError(req.ID, CodeParseError, r.err), calls |-> r.calls]
        ELSE [write |-> r.resp, calls |-> r.calls]

\* Server.read that returns nothing for an envelope without ID.
ServerRead_DropsNotifications(rd) ==
    IF rd.err.kind = "deadline" THEN [body |-> NoBody, write |-> NoBody]
    ELSE IF rd.err.kind # "nil"
    THEN [body |-> NoBody, write |-> WriteError(NilID, CodeParseError, rd.err)]
    ELSE IF isEmptyRequest(rd.body)
    THEN [body |-> NoBody,
          write |-> WriteError(NilID, CodeInvalidRequest, ErrPlain("invalid request"))]
    ELSE IF rd.body.ID.nil THEN [body |-> NoBody, write |-> NoBody]
    ELSE [body |-> rd.body, write |-> NoBody]

\* Server.read that treats the deadline as any other error of Read.
ServerRead_DeadlineIsError(rd) ==
    IF rd.err.kind # "nil"
    THEN [body |-> NoBody, write |-> WriteError(NilID, CodeParseError, rd.err)]
    ELSE IF isEmptyRequest(rd.body)
    THEN [body |-> NoBody,
          write |-> WriteError(NilID, CodeInvalidRequest, ErrPlain("invalid request"))]
    ELSE [body |-> rd.body, write |-> NoBody]

\* Server.read that hands the envelope on after a failed Read.
ServerRead_ReturnsBody(rd) ==
    IF rd.err.kind = "deadline" THEN [body |-> NoBody, write |-> NoBody]
    ELSE IF rd.err.kind # "nil"
    THEN [body |-> rd.body, write |-> WriteError(NilID, CodeParseError, rd.err)]
    ELSE IF isEmptyRequest(rd.body)
    THEN [body |-> NoBody,
          write |-> WriteError(NilID, CodeInvalidRequest, ErrPlain("invalid request"))]
    ELSE [body |-> rd.body, write |-> NoBody]

\* Server.read, given what Transport.Read did: the envelope it returns for
\* dispatch (NoBody: nil) and the envelope given to Transport.Write.
ServerRead(rd) ==
    IF rd.err.kind = "deadline" THEN [body |-> NoBody, write |-> NoBody]
    ELSE IF rd.err.kind # "nil"
    THEN [body |-> NoBody, write |-> WriteError(NilID, CodeParseError, rd.err)]
    ELSE IF isEmptyRequest(rd.body)
    THEN [body |-> NoBody,
          write |-> WriteError(NilID, CodeInvalidRequest, ErrPlain("invalid request"))]
    ELSE [body |-> rd.body, write |-> NoBody]

(***************************************************************************)
(* The transport.  Read yields one of ReadOutcomes; Write and Close        *)
(* succeed or fail.  Every Write call is recorded with the envelope, its   *)
(* outcome, the code that made it (by) and the Read call that led to it    *)
(* (at: an index of readLog, or of sends for an outbound request) and its  *)
(* rank n among the Write calls of the same origin.                        *)
(***************************************************************************)
Write(v, ok, by, at) ==
    writes \cup {[v |-> v, ok |-> ok, by |-> by, at |-> at,
                  n |-> 1 + Cardinality({w \in writes : w.by = by /\ w.at = at})]}

ReadOK(b) == [err |-> ErrNil, body |-> b]
ReadErr(e) == [err |-> e, body |-> EmptyBody]

\* What Read returns besides envelopes: io.EOF or a syntax error, an
\* *Error (the Transport contract, jsonrpc.go, lets Read return one).
ReadFailures ==
    { ReadErr(ErrPlain("EOF")),
      ReadErr(ErrOf(NewError(CodeInvalidParams, "id not equal"))) }

\* The server the tests build: initServer (f1, f2, f3 and the matcher of
\* the prefix "ok/"), a handler whose result does not encode, and a
\* handler for b2, a method the hook of TestServer_response refuses.
Methods == {"f1", "f2", "f3", "f4", "ok/1", "ok1", "b2", "b5", ""}
HasPrefixOk == {"ok/1"}
InitServer ==
    /\ servers = [m \in {"f1", "f2", "f3", "f4", "b2"} |->
                    CASE m = "f1" -> "inc" [] m = "f2" -> "errError"
                      [] m = "f3" -> "errPlain" [] m = "f4" -> "nan"
                      [] m = "b2" -> "inc"]
    /\ matchers = <<[matcher |-> HasPrefixOk, h |-> "inc"]>>
    /\ before \in {"nil", "hook"}
    /\ unique = 0

InitConn ==
    /\ callbacks = <<>>
    /\ writes = {}
    /\ closed = 0
    /\ closeErr = ErrNil
    /\ readLog = <<>>
    /\ cancelled = FALSE
    /\ servePC = "select"
    /\ serveRet = ErrNil
    /\ wg = 0
    /\ tasks = <<>>
    /\ sends = <<>>
    /\ logged = {}
    /\ errHandled = <<>>
    /\ calls = {}
    /\ panicked = FALSE
    /\ srvBody = NoBody

serverVars == <<servers, matchers, before, errHandler, errlog>>
streamVars == <<header, out, inbuf, sreads, decErr, outMux, outBroken, swrites, peers>>
idVars == <<idIn, idRecv, idText, idOut, idPC>>
udpVars == <<udpAddr, udpMux, udpRd, udpIn, udpTasks, udpSent>>
moreVars == <<deadlines, idVars, udpVars>>
otherVars == <<registers, streamVars, moreVars>>
InitStream ==
    /\ header = FALSE
    /\ out = <<>>
    /\ inbuf = <<>>
    /\ sreads = <<>>
    /\ decErr = ErrNil
    /\ outMux = 0
    /\ outBroken = FALSE
    /\ swrites = <<>>
    /\ peers = 0
InitUDP ==
    /\ udpAddr = "nil"
    /\ udpMux = [w |-> FALSE, r |-> 0]
    /\ udpRd = [pc |-> "idle", addr |-> "nil"]
    /\ udpIn = <<>>
    /\ udpTasks = <<>>
    /\ udpSent = <<>>
InitMore ==
    /\ InitUDP
    /\ deadlines = 0
    /\ idIn = NilID
    /\ idRecv = NilID
    /\ idText = ""
    /\ idOut = NilID
    /\ idPC = "new"
InitOther == registers = <<>> /\ InitStream /\ InitMore
connVars == <<unique, callbacks, closed, closeErr, cancelled, servePC, serveRet, wg, tasks,
              sends, logged, errHandled, panicked>>

(***************************************************************************)
(* SpecServer: Server.read, then Server.response on what it returned.      *)
(***************************************************************************)
SrvIDs == {NilID, NumID(1), StrID("1")}
SrvRequests ==
    { Body(Version, id, mp[1], mp[2], NilRaw, NilError) :
        id \in SrvIDs,
        mp \in { <<"f1", NilRaw>>, <<"f1", Raw("5")>>, <<"f1", Raw("{xx")>>,
                 <<"f2", Raw("5")>>, <<"f3", Raw("5")>>, <<"f4", Raw("5")>>,
                 <<"ok/1", Raw("5")>>, <<"ok1", Raw("5")>>,
                 <<"b2", Raw("5")>>, <<"b5", Raw("5")>>, <<"", Raw("5")>> } }
SrvOthers ==
    { EmptyBody,
      Body(Version, NilID, "", NilRaw, NilRaw, NilError),
      Body("", NumID(1), "", NilRaw, NilRaw, NilError),
      Body("", NilID, "f1", NilRaw, NilRaw, NilError),
      Body("", NilID, "", Raw("5"), NilRaw, NilError),
      Body("", NilID, "", NilRaw, Raw("6"), NilError),
      Body(Version, NumID(1), "", NilRaw, Raw("6"), NilError),
      Body(Version, StrID("1"), "", NilRaw, NilRaw, NewError(CodeInternalError, "error")) }
SrvReadOutcomes ==
    {ReadOK(b) : b \in SrvRequests \cup SrvOthers} \cup ReadFailures

Tag(cs, at) == { [h |-> cs[i].h, notify |-> cs[i].notify, in |-> cs[i].in,
                  req |-> cs[i].req, at |-> at] : i \in DOMAIN cs }

SrvInit ==
    /\ InitServer
    /\ errHandler = FALSE
    /\ errlog = FALSE
    /\ InitConn
    /\ InitOther

\* srv.read(transport)
SrvRead ==
    /\ srvBody = NoBody
    /\ Len(readLog) < MaxReads
    /\ \E rd \in SrvReadOutcomes, ok \in BOOLEAN :
         LET r == ServerRead(rd) IN
         /\ readLog' = Append(readLog, rd)
         /\ writes' = IF r.write = NoBody THEN writes
                      ELSE Write(r.write, ok, "read", Len(readLog) + 1)
         /\ srvBody' = r.body
    /\ UNCHANGED <<serverVars, otherVars, connVars, calls>>

\* A read that ends with os.ErrDeadlineExceeded: nothing happens.
SrvReadDeadline ==
    /\ srvBody = NoBody
    /\ ServerRead(ReadErr(ErrDeadline)) = [body |-> NoBody, write |-> NoBody]
    /\ UNCHANGED vars

\* srv.response(transport, ret) for a request, as Conn.serve calls it
SrvResponse ==
    /\ srvBody # NoBody
    /\ isRequest(srvBody)
    /\ \E ok \in BOOLEAN :
         LET r == ServerResponse(srvBody) IN
         /\ writes' = IF r.write = NoBody THEN writes
                      ELSE Write(r.write, ok, "response", Len(readLog))
         /\ calls' = calls \cup Tag(r.calls, Len(readLog))
    /\ srvBody' = NoBody
    /\ UNCHANGED <<serverVars, otherVars, connVars, readLog>>

\* an envelope that is no request is not given to Server.response
SrvSkip ==
    /\ srvBody # NoBody
    /\ ~isRequest(srvBody)
    /\ srvBody' = NoBody
    /\ UNCHANGED <<serverVars, otherVars, connVars, readLog, writes, calls>>

SrvNext == SrvRead \/ SrvReadDeadline \/ SrvResponse \/ SrvSkip

SpecServer == SrvInit /\ [][SrvNext]_vars

(***************************************************************************)
(* Spec: the connection engine.                                            *)
(***************************************************************************)
\* callback.call on a response: decode the result into the callback's shape
\* (int) and invoke the user function, which returns ret.
CallbackCall(f, b, ret) ==
    LET u == IF b.Result.nil THEN [ok |-> TRUE, v |-> 0] ELSE UnmarshalInt(b.Result.json)
    IN  IF ~b.Error.nil THEN [err |-> ErrOf(b.Error), invoked |-> 0]
        ELSE IF ~u.ok THEN [err |-> ErrPlain("invalid character"), invoked |-> 0]
        ELSE [err |-> ret, invoked |-> 1]

\* conn.serve that overlooks the error of a response.
HasError_Never(b) == FALSE

\* conn.serve: body.Error != nil
HasError(b) == ~b.Error.nil

\* Conn.Serve that returns when conn.server.read returned an error.
ServeAfterRead_Returns(failed) == IF failed THEN "returned" ELSE "select"

\* Conn.Serve: where the loop goes once conn.server.read has returned,
\* with an error (continue), with nothing (continue) or after the spawn
ServeAfterRead(failed) == "select"

\* ctx.Err() once ctx is cancelled
ErrCanceled == ErrPlain("context canceled")

\* Conn.Serve that returns what Close returned.
ServeReturn_CloseOnly(cerr) == cerr

\* Conn.Serve: what it returns on <-ctx.Done(), given what Close returned
ServeReturn(cerr) == IF cerr.kind # "nil" THEN cerr ELSE ErrCanceled

\* Conn.Serve without the deferred wg.Wait().
WaitDone_NoWait == TRUE

\* Conn.Serve: defer wg.Wait() lets Serve return
WaitDone == wg = 0

\* Conn.printErr that prints nothing.
PrintErr_Dropped(what, at) == logged

\* conn.printErr
PrintErr(what, at) ==
    IF errlog THEN logged \cup {[what |-> what, at |-> at]} ELSE logged

\* conn.serve that leaves the callback in the table.
Delete_Keeps(m, k) == m

\* sync.Map operations on Conn.callbacks
Store(m, k, v) == [x \in DOMAIN m \cup {k} |-> IF x = k THEN v ELSE m[x]]
Delete(m, k) == [x \in DOMAIN m \ {k} |-> m[x]]
Found(m, k) == k \in DOMAIN m

\* Server.id: the next ID of the source (decimal strings, as the tests' source)
ServerID == StrID(FormatInt(unique))

\* The IDs of the requests the peer has received.
WrittenIDs == { w.v.ID : w \in { x \in writes : x.by = "request" /\ x.ok /\ ~x.v.ID.nil } }

\* What the peer sends: requests and notifications, responses (a result
\* that decodes, one that does not, an error) to the requests it received,
\* the same with the number that reads as the ID's text, responses nobody
\* asked for, a response without ID, and input that does not parse.
ConnRequests ==
    { Body(Version, NumID(1), "f1", Raw("5"), NilRaw, NilError),
      Body(Version, NilID, "f3", Raw("5"), NilRaw, NilError) }
Answers(id) ==
    { Body(Version, id, "", NilRaw, Raw("6"), NilError),
      Body(Version, id, "", NilRaw, Raw("{xx"), NilError),
      Body(Version, id, "", NilRaw, NilRaw, NewError(CodeInternalError, "error")) }
AsNumber(id) ==
    LET u == UnmarshalInt(id.alpha) IN IF u.ok THEN {NumID(u.v)} ELSE {}
ConnResponses ==
    UNION { Answers(id) \cup { Body(Version, n, "", NilRaw, Raw("6"), NilError) :
                                  n \in AsNumber(id) } : id \in WrittenIDs }
    \cup { Body(Version, StrID("x"), "", NilRaw, Raw("6"), NilError),
           Body(Version, NilID, "", NilRaw, NilRaw, NilError) }
ConnReadOutcomes ==
    {ReadOK(b) : b \in ConnRequests \cup ConnResponses} \cup {ReadErr(ErrPlain("EOF"))}

\* the goroutine Serve spawns for an envelope; late: ctx was cancelled when
\* it was spawned
NewTask(b, at) ==
    [body |-> b, at |-> at, pc |-> "start", w |-> NoBody, f |-> 0, found |-> FALSE,
     invoked |-> 0, cerr |-> ErrNil, late |-> cancelled]

Init ==
    /\ InitServer
    /\ before = "nil"
    /\ errHandler \in BOOLEAN
    /\ errlog \in BOOLEAN
    /\ InitConn
    /\ InitOther

\* ctx is cancelled by its owner
Cancel ==
    /\ ~panicked
    /\ ~cancelled
    /\ cancelled' = TRUE
    /\ UNCHANGED <<serverVars, otherVars, unique, callbacks, writes, closed, closeErr, readLog, servePC,
                   serveRet, wg, tasks, sends, logged, errHandled, calls, panicked, srvBody>>

\* Conn.Serve, case <-ctx.Done(): close the transport and return; the
\* deferred wg.Wait() holds the return back.
ServeDone ==
    /\ ~panicked
    /\ servePC = "select"
    /\ cancelled
    /\ \E cerr \in {ErrNil, ErrPlain("close")} :
         /\ closeErr' = cerr
         /\ serveRet' = ServeReturn(cerr)
    /\ closed' = closed + 1
    /\ servePC' = "wait"
    /\ UNCHANGED <<serverVars, otherVars, unique, callbacks, writes, readLog, cancelled, wg, tasks,
                   sends, logged, errHandled, calls, panicked, srvBody>>

\* Conn.Serve whose select does not look at ctx.Done() first.
ServeDefault_IgnoresDone ==
    /\ ~panicked
    /\ servePC = "select"
    /\ servePC' = "read"
    /\ UNCHANGED <<serverVars, otherVars, unique, callbacks, writes, closed, closeErr, readLog, cancelled,
                   serveRet, wg, tasks, sends, logged, errHandled, calls, panicked, srvBody>>

\* Conn.Serve that joins its goroutines before it reads again.
ServeDefault_Joins ==
    /\ ~panicked
    /\ servePC = "select"
    /\ ~cancelled
    /\ wg = 0
    /\ servePC' = "read"
    /\ UNCHANGED <<serverVars, otherVars, unique, callbacks, writes, closed, closeErr, readLog, cancelled,
                   serveRet, wg, tasks, sends, logged, errHandled, calls, panicked, srvBody>>

\* Conn.Serve, default: enter conn.server.read
ServeDefault ==
    /\ ~panicked
    /\ servePC = "select"
    /\ ~cancelled
    /\ servePC' = "read"
    /\ UNCHANGED <<serverVars, otherVars, unique, callbacks, writes, closed, closeErr, readLog, cancelled,
                   serveRet, wg, tasks, sends, logged, errHandled, calls, panicked, srvBody>>

\* Conn.Serve: conn.server.read returns; log its error, or spawn the
\* goroutine that runs conn.serve(body)
ServeRead ==
    /\ ~panicked
    /\ servePC = "read"
    /\ Len(readLog) < MaxReads
    /\ \E rd \in ConnReadOutcomes, ok \in BOOLEAN :
         LET r == ServerRead(rd)
             at == Len(readLog) + 1
             failed == r.write # NoBody /\ ~ok
         IN
         /\ readLog' = Append(readLog, rd)
         /\ writes' = IF r.write = NoBody THEN writes ELSE Write(r.write, ok, "read", at)
         /\ logged' = IF failed THEN PrintErr("read", at) ELSE logged
         /\ IF failed \/ r.body = NoBody
            THEN UNCHANGED <<wg, tasks>>
            ELSE /\ wg' = wg + 1
                 /\ tasks' = Append(tasks, NewTask(r.body, at))
         /\ servePC' = ServeAfterRead(failed)
    /\ UNCHANGED <<serverVars, otherVars, unique, callbacks, closed, closeErr, cancelled, serveRet, sends,
                   errHandled, calls, panicked, srvBody>>

\* Conn.Serve: Transport.Read ends with os.ErrDeadlineExceeded; the same
\* code as in ServeRead runs on what conn.server.read returns.  No entry of
\* readLog stands for such a Read: the origin of what it causes is 0.
ServeReadDeadline ==
    /\ ~panicked
    /\ servePC = "read"
    /\ \E ok \in BOOLEAN :
         LET r == ServerRead(ReadErr(ErrDeadline))
             failed == r.write # NoBody /\ ~ok
         IN
         /\ writes' = IF r.write = NoBody THEN writes ELSE Write(r.write, ok, "read", 0)
         /\ logged' = IF failed THEN PrintErr("read", 0) ELSE logged
         /\ IF failed \/ r.body = NoBody
            THEN UNCHANGED <<wg, tasks>>
            ELSE /\ wg' = wg + 1
                 /\ tasks' = Append(tasks, NewTask(r.body, 0))
         /\ servePC' = ServeAfterRead(failed)
    /\ deadlines' = IF deadlines < MaxDeadlines THEN deadlines + 1 ELSE deadlines
    /\ UNCHANGED <<serverVars, registers, streamVars, idVars, udpVars, unique, callbacks, closed, closeErr,
                   readLog, cancelled, serveRet, sends, errHandled, calls, panicked, srvBody>>

\* Conn.Serve: the deferred wg.Wait() returns, and Serve with it
ServeWait ==
    /\ ~panicked
    /\ servePC = "wait"
    /\ WaitDone
    /\ servePC' = "returned"
    /\ UNCHANGED <<serverVars, otherVars, unique, callbacks, writes, closed, closeErr, readLog, cancelled,
                   serveRet, wg, tasks, sends, logged, errHandled, calls, panicked, srvBody>>

\* a goroutine ends: its state, and the deferred wg.Done()
Finish(i, t) == /\ tasks' = [tasks EXCEPT ![i] = [t EXCEPT !.pc = "done"]]
                /\ wg' = wg - 1

\* conn.serve(body), a request: Server.response up to its Transport.Write
ServeRequest(i) ==
    LET t == tasks[i]
        r == ServerResponse(t.body)
    IN  /\ isRequest(t.body)
        /\ calls' = calls \cup Tag(r.calls, t.at)
        /\ IF r.write = NoBody
           THEN Finish(i, t)
           ELSE /\ tasks' = [tasks EXCEPT ![i] = [t EXCEPT !.pc = "write", !.w = r.write]]
                /\ wg' = wg
        /\ UNCHANGED <<callbacks, logged, errHandled, panicked>>

\* conn.serve(body), a response: the error handler, or the lookup of the
\* callback under body.ID.String()
ServeResponse(i) ==
    LET t == tasks[i]
        key == IDString(t.body.ID)
    IN  /\ ~isRequest(t.body)
        /\ IF HasError(t.body)
           THEN /\ errHandled' = IF errHandler
                                 THEN Append(errHandled, [e |-> t.body.Error, at |-> t.at])
                                 ELSE errHandled
                /\ Finish(i, t)
                /\ UNCHANGED <<logged, panicked>>
           ELSE IF IDStringPanics(t.body.ID)
           THEN /\ panicked' = TRUE
                /\ tasks' = [tasks EXCEPT ![i] = [t EXCEPT !.pc = "panic"]]
                /\ UNCHANGED <<wg, logged, errHandled>>
           ELSE IF Found(callbacks, key)
           THEN /\ tasks' = [tasks EXCEPT ![i] =
                               [t EXCEPT !.pc = "call", !.f = callbacks[key], !.found = TRUE]]
                /\ UNCHANGED <<wg, logged, errHandled, panicked>>
           ELSE /\ logged' = PrintErr("no callback", t.at)
                /\ Finish(i, t)
                /\ UNCHANGED <<errHandled, panicked>>
        /\ UNCHANGED <<callbacks, calls>>

\* the goroutine spawned by Serve starts conn.serve(body)
TaskStart ==
    /\ ~panicked
    /\ \E i \in DOMAIN tasks :
         /\ tasks[i].pc = "start"
         /\ ServeRequest(i) \/ ServeResponse(i)
    /\ UNCHANGED <<serverVars, otherVars, unique, writes, closed, closeErr, readLog, cancelled, servePC,
                   serveRet, sends, srvBody>>

\* Server.response: Transport.Write of the response, its error logged
TaskWrite ==
    /\ ~panicked
    /\ \E i \in DOMAIN tasks, ok \in BOOLEAN :
         LET t == tasks[i] IN
         /\ t.pc = "write"
         /\ writes' = Write(t.w, ok, "response", t.at)
         /\ logged' = IF ok THEN logged ELSE PrintErr("response", t.at)
         /\ Finish(i, t)
    /\ UNCHANGED <<serverVars, otherVars, unique, callbacks, closed, closeErr, readLog, cancelled, servePC,
                   serveRet, sends, errHandled, calls, panicked, srvBody>>

\* conn.serve that closes the transport when the callback failed.
TaskCall_ClosesOnFailure ==
    /\ ~panicked
    /\ \E i \in DOMAIN tasks, ret \in {ErrNil, ErrPlain("test")} :
         LET t == tasks[i]
             c == CallbackCall(t.f, t.body, ret)
         IN
         /\ t.pc = "call"
         /\ logged' = IF c.err.kind # "nil" THEN PrintErr("callback", t.at) ELSE logged
         /\ closed' = IF c.err.kind # "nil" THEN closed + 1 ELSE closed
         /\ callbacks' = Delete(callbacks, IDString(t.body.ID))
         /\ Finish(i, [t EXCEPT !.invoked = c.invoked, !.cerr = c.err])
    /\ UNCHANGED <<serverVars, otherVars, unique, writes, closeErr, readLog, cancelled, servePC,
                   serveRet, sends, errHandled, calls, panicked, srvBody>>

\* conn.serve: f.(*callback).call(body), its error logged, then
\* conn.callbacks.Delete
TaskCall ==
    /\ ~panicked
    /\ \E i \in DOMAIN tasks, ret \in {ErrNil, ErrPlain("test")} :
         LET t == tasks[i]
             c == CallbackCall(t.f, t.body, ret)
         IN
         /\ t.pc = "call"
         /\ logged' = IF c.err.kind # "nil" THEN PrintErr("callback", t.at) ELSE logged
         /\ callbacks' = Delete(callbacks, IDString(t.body.ID))
         /\ Finish(i, [t EXCEPT !.invoked = c.invoked, !.cerr = c.err])
    /\ UNCHANGED <<serverVars, otherVars, unique, writes, closed, closeErr, readLog, cancelled, servePC,
                   serveRet, sends, errHandled, calls, panicked, srvBody>>

\* Conn.Send that goes on to store the callback whatever request returned.
AfterRequest_IgnoresError(call, ok, notify) ==
    IF notify THEN (IF ok THEN call ELSE [call EXCEPT !.err = ErrPlain("write")])
    ELSE [call EXCEPT !.pc = "store"]

\* Conn.Notify and Conn.Send once Server.request has written: the error of
\* the Write is returned; Notify returns; Send goes on to store the callback
AfterRequest(call, ok, notify) ==
    IF ~ok THEN [call EXCEPT !.err = ErrPlain("write")]
    ELSE IF notify THEN call
    ELSE [call EXCEPT !.pc = "store"]

\* Server.request, called by Conn.Send (notify = FALSE) and Conn.Notify:
\* encode the params, mint the ID, write the request.  Notify returns
\* here, and so does Send when this failed.
Request ==
    /\ ~panicked
    /\ Len(sends) < MaxSends
    /\ \E notify \in BOOLEAN, in \in {IntVal(5), NaN}, ok \in BOOLEAN :
         LET data == Marshal(in)
             id == IF notify THEN NilID ELSE ServerID
             req == Body(Version, id, "f1", Raw(data.json), NilRaw, NilError)
             at == Len(sends) + 1
             call == [notify |-> notify, id |-> id, pc |-> "done", err |-> ErrNil]
         IN
         /\ IF ~data.ok
            THEN /\ sends' = Append(sends, [call EXCEPT !.id = NilID,
                                                        !.err = ErrPlain("unsupported value")])
                 /\ UNCHANGED <<unique, writes>>
            ELSE /\ unique' = IF notify THEN unique ELSE unique + 1
                 /\ writes' = Write(req, ok, "request", at)
                 /\ sends' = Append(sends, AfterRequest(call, ok, notify))
    /\ UNCHANGED <<serverVars, otherVars, callbacks, closed, closeErr, readLog, cancelled, servePC, serveRet,
                   wg, tasks, logged, errHandled, calls, panicked, srvBody>>

\* Conn.Send: conn.callbacks.Store(req.ID.String(), cb); return nil
SendStore ==
    /\ ~panicked
    /\ \E i \in DOMAIN sends :
         /\ sends[i].pc = "store"
         /\ callbacks' = Store(callbacks, IDString(sends[i].id), i)
         /\ sends' = [sends EXCEPT ![i].pc = "done"]
    /\ UNCHANGED <<serverVars, otherVars, unique, writes, closed, closeErr, readLog, cancelled, servePC,
                   serveRet, wg, tasks, logged, errHandled, calls, panicked, srvBody>>

Next ==
    \/ Cancel
    \/ ServeDone
    \/ ServeDefault
    \/ ServeRead
    \/ ServeReadDeadline
    \/ ServeWait
    \/ TaskStart
    \/ TaskWrite
    \/ TaskCall
    \/ Request
    \/ SendStore

Spec == Init /\ [][Next]_vars

(***************************************************************************)
(* SpecRegister: a server is built with NewServer and configured by calls  *)
(* of Register (which may overlap: Server.servers is a sync.Map) and of     *)
(* RegisterMatcher; once every call has returned, Server.response answers  *)
(* requests.  Server.matchers is a plain slice, so the configuration is    *)
(* over before the first request is answered.  The transport is a buffer   *)
(* (TestServer_response): its Write does not fail.                         *)
(***************************************************************************)
MaxRegisters == 2     \* calls of Server.Register
MaxMatchers == 2      \* calls of Server.RegisterMatcher

\* strings.HasSuffix(m, "1"), as HasPrefixOk a predicate over the method names
HasSuffix1 == {"f1", "ok/1"}
RegMethods == {"f1", "f2", "ok/1"}
RegHandlers == {"inc", "errError"}
RegMatchers == { [matcher |-> HasSuffix1, h |-> "errError"],
                 [matcher |-> HasPrefixOk, h |-> "inc"] }
RegRequests ==
    { Body(Version, NumID(1), m, Raw("5"), NilRaw, NilError) : m \in RegMethods }

\* Server.Exists
Exists(method) == Found(servers, method)

\* every call of Register so far has returned
Configured == \A i \in DOMAIN registers : registers[i].pc = "done"

\* NewServer
RegInit ==
    /\ servers = <<>>
    /\ matchers = <<>>
    /\ before = "nil"
    /\ unique = 0
    /\ errHandler = FALSE
    /\ errlog = FALSE
    /\ InitConn
    /\ InitOther

\* Server.Register that stores without asking s.Exists.
RegisterExists_NoCheck ==
    /\ readLog = <<>>
    /\ Len(registers) < MaxRegisters
    /\ \E method \in RegMethods, h \in RegHandlers :
         registers' = Append(registers,
             [method |-> method, h |-> h, alone |-> Configured,
              pc |-> "store", ret |-> FALSE])
    /\ UNCHANGED <<serverVars, streamVars, moreVars, connVars, writes, readLog, calls, srvBody>>

\* Server.Register: s.Exists(method), and return false when it is there.
\* alone: no other call of Register is under way when this one begins.
RegisterExists ==
    /\ readLog = <<>>
    /\ Len(registers) < MaxRegisters
    /\ \E method \in RegMethods, h \in RegHandlers :
         registers' = Append(registers,
             [method |-> method, h |-> h, alone |-> Configured,
              pc |-> IF Exists(method) THEN "done" ELSE "store", ret |-> FALSE])
    /\ UNCHANGED <<serverVars, streamVars, moreVars, connVars, writes, readLog, calls, srvBody>>

\* Server.Register: s.servers.Store(method, newHandler(f)); return true
RegisterStore ==
    /\ \E i \in DOMAIN registers :
         /\ registers[i].pc = "store"
         /\ servers' = Store(servers, registers[i].method, registers[i].h)
         /\ registers' = [registers EXCEPT ![i].pc = "done", ![i].ret = TRUE]
    /\ UNCHANGED <<matchers, before, errHandler, errlog, streamVars, moreVars, connVars, writes,
                   readLog, calls, srvBody>>

\* Server.RegisterMatcher
RegisterMatcher ==
    /\ readLog = <<>>
    /\ Len(matchers) < MaxMatchers
    /\ \E m \in RegMatchers : matchers' = Append(matchers, m)
    /\ UNCHANGED <<servers, before, errHandler, errlog, otherVars, connVars, writes, readLog,
                   calls, srvBody>>

\* Server.response for a request, on the configured server
RegResponse ==
    /\ Configured
    /\ Len(readLog) < MaxReads
    /\ \E req \in RegRequests :
         LET r == ServerResponse(req)
             at == Len(readLog) + 1
         IN
         /\ readLog' = Append(readLog, ReadOK(req))
         /\ writes' = IF r.write = NoBody THEN writes
                      ELSE Write(r.write, TRUE, "response", at)
         /\ calls' = calls \cup Tag(r.calls, at)
    /\ UNCHANGED <<serverVars, otherVars, connVars, srvBody>>

RegNext == RegisterExists \/ RegisterStore \/ RegisterMatcher \/ RegResponse

SpecRegister == RegInit /\ [][RegNext]_vars

(***************************************************************************)
(* encoding/json for the envelope.  A JSON value is kept with its text and *)
(* with what the decoder sees in it; an object is the sequence of its      *)
(* members.  Marshal follows the struct tags of body and Error, Unmarshal  *)
(* what encoding/json does for each member of a *body.                     *)
(***************************************************************************)
\* what encoding/json writes between the quotes of a string: a quote and a
\* backslash get a backslash, < > & are written as \u00XX
Escape(str) ==
    IF str = "a\"b" THEN "a\\\"b"
    ELSE IF str = "\\" THEN "\\\\"
    ELSE IF str = "<" THEN "\\u003c"
    ELSE str
Quote(str) == "\"" \o Escape(str) \o "\""
JString(str) == [t |-> "string", text |-> Quote(str), s |-> str, n |-> 0, e |-> NilError]
JNumber(n) == [t |-> "number", text |-> FormatInt(n), s |-> "", n |-> n, e |-> NilError]
JNull == [t |-> "null", text |-> "null", s |-> "", n |-> 0, e |-> NilError]
JOther(text) == [t |-> "other", text |-> text, s |-> "", n |-> 0, e |-> NilError]

\* Error, as json.Marshal writes it (Data is nil: omitempty)
JError(e) ==
    [t |-> "object",
     text |-> "{\"code\":" \o FormatInt(e.Code) \o ",\"message\":" \o Quote(e.Message) \o "}",
     s |-> "", n |-> 0, e |-> e]

\* the JSON value a json.RawMessage holds
JRaw(text) ==
    IF text = "null" THEN JNull
    ELSE IF UnmarshalInt(text).ok THEN JNumber(UnmarshalInt(text).v)
    ELSE JOther(text)

\* json.Valid, for the texts a json.RawMessage of the model holds
ValidRaw(raw) == raw.nil \/ raw.json = "null" \/ UnmarshalInt(raw.json).ok

Member(k, v) == [k |-> k, v |-> v]

\* ID.MarshalJSON
MarshalID(id) == IF id.isNumber THEN JNumber(id.number) ELSE JString(id.alpha)

\* the members json.Marshal writes for a body: jsonrpc always, the others
\* unless empty
Members(b) ==
    <<Member("jsonrpc", JString(b.Version))>>
        \o (IF b.ID.nil THEN <<>> ELSE <<Member("id", MarshalID(b.ID))>>)
        \o (IF b.Method = "" THEN <<>> ELSE <<Member("method", JString(b.Method))>>)
        \o (IF b.Params.nil THEN <<>> ELSE <<Member("params", JRaw(b.Params.json))>>)
        \o (IF b.Result.nil THEN <<>> ELSE <<Member("result", JRaw(b.Result.json))>>)
        \o (IF b.Error.nil THEN <<>> ELSE <<Member("error", JError(b.Error))>>)

RECURSIVE MembersText(_)
MembersText(ms) ==
    IF ms = <<>> THEN ""
    ELSE Quote(Head(ms).k) \o ":" \o Head(ms).v.text
             \o (IF Tail(ms) = <<>> THEN "" ELSE "," \o MembersText(Tail(ms)))

\* json.Marshal(v) for a *body
MarshalBody(b) ==
    IF ValidRaw(b.Params) /\ ValidRaw(b.Result)
    THEN [ok |-> TRUE, text |-> "{" \o MembersText(Members(b)) \o "}", obj |-> Members(b)]
    ELSE [ok |-> FALSE, text |-> "", obj |-> <<>>]

\* ID.UnmarshalJSON
UnmarshalID(v) ==
    IF v.t = "number" THEN [ok |-> TRUE, id |-> NumID(v.n)]
    ELSE IF v.t = "string" THEN [ok |-> TRUE, id |-> StrID(v.s)]
    ELSE [ok |-> FALSE, id |-> NilID]

\* one member stored into the body: null clears a pointer and leaves a
\* string alone; a value of the wrong type is an error and stores nothing
StoreMember(r, m) ==
    LET b == r.body
        bad == [r EXCEPT !.ok = FALSE]
    IN  CASE m.k = "jsonrpc" ->
               IF m.v.t = "string" THEN [r EXCEPT !.body = [b EXCEPT !.Version = m.v.s]]
               ELSE IF m.v.t = "null" THEN r ELSE bad
          [] m.k = "method" ->
               IF m.v.t = "string" THEN [r EXCEPT !.body = [b EXCEPT !.Method = m.v.s]]
               ELSE IF m.v.t = "null" THEN r ELSE bad
          [] m.k = "id" ->
               IF m.v.t = "null" THEN [r EXCEPT !.body = [b EXCEPT !.ID = NilID]]
               ELSE IF UnmarshalID(m.v).ok
               THEN [r EXCEPT !.body = [b EXCEPT !.ID = UnmarshalID(m.v).id]]
               ELSE bad
          [] m.k = "params" ->
               [r EXCEPT !.body = [b EXCEPT !.Params =
                    IF m.v.t = "null" THEN NilRaw ELSE Raw(m.v.text)]]
          [] m.k = "result" ->
               [r EXCEPT !.body = [b EXCEPT !.Result =
                    IF m.v.t = "null" THEN NilRaw ELSE Raw(m.v.text)]]
          [] m.k = "error" ->
               IF m.v.t = "null" THEN [r EXCEPT !.body = [b EXCEPT !.Error = NilError]]
               ELSE IF m.v.t = "object" THEN [r EXCEPT !.body = [b EXCEPT !.Error = m.v.e]]
               ELSE bad
          [] OTHER -> r

RECURSIVE StoreMembers(_, _)
StoreMembers(r, ms) ==
    IF ms = <<>> THEN r ELSE StoreMembers(StoreMember(r, Head(ms)), Tail(ms))

\* json.Unmarshal(data, v) for v = &body{}
UnmarshalBody(ms) == StoreMembers([ok |-> TRUE, body |-> EmptyBody], ms)

(***************************************************************************)
(* The byte stream of a streamTransport.  The stream is kept as the        *)
(* sequence of the pieces written to it: a header line (with its CR-LF),   *)
(* the empty line that ends a header block, and a run of bytes without a   *)
(* line end (a JSON text, or what a Read left of a piece).  by is the      *)
(* Write call that emitted the piece, 0 for the peer.                      *)
(***************************************************************************)
MaxLength == 99    \* the lengths strconv.ParseInt knows: -1..MaxLength

contentType == "Content-Type"
contentLength == "Content-Length"
charset == "utf-8"
mimetypes == <<"application/json", "application/json-rpc", "application/jsonrequest">>

errInvalidHeader == ErrPlain("invalid header")
errInvalidContentType == ErrPlain("invalid Content-Type")
errMissContentLength == ErrPlain("missing Content-Length")
EOF == ErrPlain("EOF")
ErrUnexpectedEOF == ErrPlain("unexpected EOF")
SyntaxError == ErrPlain("invalid character")
UnmarshalTypeError == ErrPlain("cannot unmarshal")
NumError == ErrPlain("strconv.ParseInt: invalid syntax")

\* key ":" val CR LF; a line without a colon has colon = FALSE and its text in key
Line(key, val, by) ==
    [t |-> "line", key |-> key, val |-> val, colon |-> TRUE,
     size |-> Len(key) + 1 + Len(val) + 2, valid |-> FALSE, obj |-> <<>>, by |-> by]
BadLine(text, by) ==
    [t |-> "line", key |-> text, val |-> "", colon |-> FALSE,
     size |-> Len(text) + 2, valid |-> FALSE, obj |-> <<>>, by |-> by]
Blank(by) ==
    [t |-> "blank", key |-> "", val |-> "", colon |-> FALSE,
     size |-> 2, valid |-> FALSE, obj |-> <<>>, by |-> by]
\* the text of a JSON object with the members obj
Data(text, obj, by) ==
    [t |-> "data", key |-> text, val |-> "", colon |-> obj # <<>>,
     size |-> Len(text), valid |-> TRUE, obj |-> obj, by |-> by]
\* bytes that are not a JSON text
Junk(text, colon, by) ==
    [t |-> "data", key |-> text, val |-> "", colon |-> colon,
     size |-> Len(text), valid |-> FALSE, obj |-> <<>>, by |-> by]
\* what is left of a piece after its first n bytes were read
Fragment(it, n) ==
    [t |-> "data", key |-> "", val |-> "", colon |-> it.colon,
     size |-> it.size - n, valid |-> FALSE, obj |-> <<>>, by |-> it.by]

\* http.CanonicalHeaderKey, for the header names of the model
CanonicalHeaderKey(key) ==
    CASE key \in {"Content-length", "content-length", "Content-Length"} -> "Content-Length"
      [] key \in {"content-type", "Content-type", "Content-Type"} -> "Content-Type"
      [] OTHER -> key

\* the header values the streams of the model hold, without surrounding space
MediaTypes ==
    {"application/json", "application/json;charset=utf-8",
     "application/json-rpc;charset=utf-8", "text/xml",
     "application/jsonrequest;charset=gbk"}
Lengths == (0 - 1)..MaxLength
Words == MediaTypes \cup {FormatInt(n) : n \in Lengths} \cup {"NaN", "go"}

Spaced == {<<" " \o w, w>> : w \in Words}
Numerals == {<<FormatInt(n), n>> : n \in Lengths}

\* strings.TrimSpace
TrimSpace(str) ==
    IF \E p \in Spaced : p[1] = str
    THEN (CHOOSE p \in Spaced : p[1] = str)[2]
    ELSE str

\* strconv.ParseInt(v, 10, 64)
ParseInt(v) ==
    IF \E p \in Numerals : p[1] = v
    THEN [ok |-> TRUE, n |-> (CHOOSE p \in Numerals : p[1] = v)[2]]
    ELSE [ok |-> FALSE, n |-> 0]

\* strings.Split(header, ";"): the media type and the charset parameter
Split(v) ==
    CASE v = "application/json" -> [mime |-> "application/json", charset |-> ""]
      [] v = "application/json;charset=utf-8" -> [mime |-> "application/json", charset |-> "utf-8"]
      [] v = "application/json-rpc;charset=utf-8" -> [mime |-> "application/json-rpc", charset |-> "utf-8"]
      [] v = "application/jsonrequest;charset=gbk" -> [mime |-> "application/jsonrequest", charset |-> "gbk"]
      [] OTHER -> [mime |-> v, charset |-> ""]

validContentType(v) ==
    \/ v = ""
    \/ /\ \E i \in 1..Len(mimetypes) : mimetypes[i] = Split(v).mime
       /\ Split(v).charset \in {"", charset}

\* the header loop of streamTransport.Read.  ReadString('\n') reads to the
\* next line end: bytes without a line end (pend) become the start of the
\* line that follows them.
NoPend == [any |-> FALSE, colon |-> FALSE]
RECURSIVE ReadHeader(_, _, _, _)
ReadHeader(buf, length, seen, pend) ==
    IF buf = <<>> THEN [err |-> EOF, length |-> length, seen |-> seen, rest |-> <<>>]
    ELSE
    LET it == Head(buf)
        rest == Tail(buf)
        fail(e) == [err |-> e, length |-> length, seen |-> seen, rest |-> rest]
        key == CanonicalHeaderKey(TrimSpace(it.key))
        v == TrimSpace(it.val)
    IN  CASE it.t = "data" ->
               ReadHeader(rest, length, seen, [any |-> TRUE, colon |-> pend.colon \/ it.colon])
          [] it.t = "blank" /\ ~pend.any ->
               [err |-> ErrNil, length |-> length, seen |-> seen, rest |-> rest]
          [] pend.any ->
               IF pend.colon \/ it.colon
               THEN ReadHeader(rest, length, seen, NoPend)
               ELSE fail(errInvalidHeader)
          [] ~it.colon \/ it.key = "" -> fail(errInvalidHeader)
          [] key = contentLength ->
               IF ParseInt(v).ok
               THEN ReadHeader(rest, ParseInt(v).n, TRUE, NoPend)
               ELSE fail(NumError)
          [] key = contentType ->
               IF validContentType(v)
               THEN ReadHeader(rest, length, seen, NoPend)
               ELSE fail(errInvalidContentType)
          [] OTHER -> ReadHeader(rest, length, seen, NoPend)

\* io.ReadFull(s.buffer, data): the pieces read whole, and what is left
RECURSIVE ReadFull(_, _)
ReadFull(buf, n) ==
    IF n = 0 THEN [short |-> FALSE, whole |-> TRUE, data |-> <<>>, rest |-> buf]
    ELSE IF buf = <<>> THEN [short |-> TRUE, whole |-> FALSE, data |-> <<>>, rest |-> <<>>]
    ELSE IF Head(buf).size > n
    THEN [short |-> FALSE, whole |-> FALSE, data |-> <<>>,
          rest |-> <<Fragment(Head(buf), n)>> \o Tail(buf)]
    ELSE LET r == ReadFull(Tail(buf), n - Head(buf).size)
         IN  [r EXCEPT !.data = <<Head(buf)>> \o @]

\* json.Unmarshal(data[:n], v)
UnmarshalData(rf) ==
    IF rf.whole /\ Len(rf.data) = 1 /\ rf.data[1].t = "data" /\ rf.data[1].valid
    THEN IF UnmarshalBody(rf.data[1].obj).ok
         THEN [err |-> ErrNil, body |-> UnmarshalBody(rf.data[1].obj).body]
         ELSE [err |-> UnmarshalTypeError, body |-> UnmarshalBody(rf.data[1].obj).body]
    ELSE [err |-> SyntaxError, body |-> EmptyBody]

\* streamTransport.Read with header framing, on the input buf
ReadFramed(buf) ==
    LET h == ReadHeader(buf, 0, FALSE, NoPend)
        rf == ReadFull(h.rest, h.length)
        ret(e, b, r) == [err |-> e, body |-> b, rest |-> r, seen |-> h.seen,
                         block |-> h.err = ErrNil]
    IN  IF h.err # ErrNil THEN ret(h.err, EmptyBody, h.rest)
        ELSE IF h.length < 0 THEN ret(errMissContentLength, EmptyBody, h.rest)
        ELSE IF h.length = 0 THEN ret(ErrNil, EmptyBody, h.rest)
        ELSE IF rf.short
             THEN ret(IF rf.data = <<>> THEN EOF ELSE ErrUnexpectedEOF, EmptyBody, <<>>)
        ELSE ret(UnmarshalData(rf).err, UnmarshalData(rf).body, rf.rest)

\* streamTransport.Read without framing: json.Decoder.Decode.  The decoder
\* keeps a read error or a syntax error and returns it from then on.
Decode(buf, kept) ==
    LET ret(e, b, r, k) == [err |-> e, body |-> b, rest |-> r, seen |-> FALSE,
                            block |-> FALSE, kept |-> k]
        um == UnmarshalBody(Head(buf).obj)
    IN  IF kept # ErrNil THEN ret(kept, EmptyBody, buf, kept)
        ELSE IF buf = <<>> THEN ret(EOF, EmptyBody, buf, EOF)
        ELSE IF Head(buf).t = "data" /\ Head(buf).valid
        THEN ret(IF um.ok THEN ErrNil ELSE UnmarshalTypeError, um.body, Tail(buf), ErrNil)
        ELSE ret(SyntaxError, EmptyBody, Tail(buf), SyntaxError)

(***************************************************************************)
(* SpecStream: one streamTransport written by concurrent Write calls and   *)
(* read by Read.  The bytes the writer emits are the input of the reader,  *)
(* into which a peer also puts header blocks and bodies of its own.        *)
(***************************************************************************)
MaxWrites == 2        \* calls of streamTransport.Write
MaxPeers == 1         \* messages the peer puts into the stream
MaxStreamReads == 2   \* calls of streamTransport.Read

\* the envelopes written
StreamBodies ==
    { EmptyBody,
      Body(Version, NumID(1), "f1", Raw("5"), NilRaw, NilError),
      Body(Version, StrID("1"), "", NilRaw, Raw("6"), NilError),
      Body(Version, NumID(2), "", NilRaw, Raw("null"), NilError),
      Body(Version, NilID, "", NilRaw, NilRaw, NewError(CodeParseError, "EOF")),
      Body(Version, NumID(1), "f1", Raw("{xx"), NilRaw, NilError) }

Version2 == Data("{\"jsonrpc\":\"2.0\"}", <<Member("jsonrpc", JString(Version))>>, 0)

\* what the peer sends
PeerBlocks ==
    { <<Line("Content-Type", "application/json", 0), Blank(0), Version2>>,
      <<Line("User-Agent", "go", 0),
        Line("Content-Type", " application/json-rpc;charset=utf-8", 0),
        Line("Content-Length", "17", 0), Blank(0), Version2>>,
      <<Line("Content-Length", "NaN", 0), Blank(0), Data("{}", <<>>, 0)>>,
      <<BadLine("Content-Type-xx", 0), Blank(0), Data("{}", <<>>, 0)>>,
      <<Line("Content-Type", "text/xml", 0), Line("Content-Length", "2", 0), Blank(0),
        Data("{}", <<>>, 0)>>,
      <<Line("Content-length", "-1", 0), Blank(0), Data("{}", <<>>, 0)>>,
      <<Line("Content-Length", "2", 0), Blank(0), Data("{ }", <<>>, 0)>>,
      <<Line("Content-Length", "0", 0), Blank(0)>>,
      <<Data("{}", <<>>, 0)>>,
      <<Junk("{\"jsonrpc\"", FALSE, 0)>> }

StreamInit ==
    /\ servers = <<>>
    /\ matchers = <<>>
    /\ before = "nil"
    /\ unique = 0
    /\ errHandler = FALSE
    /\ errlog = FALSE
    /\ InitConn
    /\ registers = <<>>
    /\ header \in BOOLEAN
    /\ out = <<>>
    /\ inbuf = <<>>
    /\ sreads = <<>>
    /\ decErr = ErrNil
    /\ outMux = 0
    /\ outBroken = FALSE
    /\ swrites = <<>>
    /\ peers = 0
    /\ InitMore

\* fmt.Sprintf(contentTypeHeader, len(data))
HeaderBlock(n, by) ==
    << Line(contentType, " " \o mimetypes[1] \o ";charset=" \o charset, by),
       Line(contentLength, " " \o FormatInt(n), by),
       Blank(by) >>

\* whether a write to s.out succeeds: a stream that failed once fails again
OutWrites == IF outBroken THEN {FALSE} ELSE BOOLEAN

streamRest == <<serverVars, connVars, registers, srvBody, readLog, writes, calls, moreVars>>

\* Write is called: json.Marshal(v), before the lock
StreamWrite ==
    /\ Len(swrites) < MaxWrites
    /\ \E v \in StreamBodies :
         LET m == MarshalBody(v) IN
         swrites' = Append(swrites,
             [v |-> v, text |-> m.text, obj |-> m.obj,
              pc |-> IF m.ok THEN "lock" ELSE "done",
              err |-> IF m.ok THEN ErrNil ELSE ErrPlain("json: error calling MarshalJSON")])
    /\ UNCHANGED <<streamRest, header, out, inbuf, sreads, decErr, outMux, outBroken, peers>>

\* s.outMux.Lock() without waiting for the holder.
StreamLock_NoMutex(i) ==
    /\ swrites[i].pc = "lock"
    /\ outMux' = i
    /\ swrites' = [swrites EXCEPT ![i].pc = IF header THEN "header" ELSE "body"]
    /\ UNCHANGED <<streamRest, header, out, inbuf, sreads, decErr, outBroken, peers>>

\* s.outMux.Lock()
StreamLock(i) ==
    /\ swrites[i].pc = "lock"
    /\ outMux = 0
    /\ outMux' = i
    /\ swrites' = [swrites EXCEPT ![i].pc = IF header THEN "header" ELSE "body"]
    /\ UNCHANGED <<streamRest, header, out, inbuf, sreads, decErr, outBroken, peers>>

\* fmt.Fprintf(s.out, contentTypeHeader, len(data))
StreamHeader(i) ==
    /\ swrites[i].pc = "header"
    /\ \E ok \in OutWrites :
         IF ok
         THEN /\ out' = out \o HeaderBlock(Len(swrites[i].text), i)
              /\ inbuf' = inbuf \o HeaderBlock(Len(swrites[i].text), i)
              /\ swrites' = [swrites EXCEPT ![i].pc = "body"]
              /\ UNCHANGED <<outMux, outBroken>>
         ELSE /\ swrites' = [swrites EXCEPT ![i].pc = "done",
                                            ![i].err = ErrPlain("write failed")]
              /\ outBroken' = TRUE
              /\ outMux' = 0
              /\ UNCHANGED <<out, inbuf>>
    /\ UNCHANGED <<streamRest, header, sreads, decErr, peers>>

\* s.out.Write(data), the deferred Unlock and the return
StreamData(i) ==
    /\ swrites[i].pc = "body"
    /\ \E ok \in OutWrites :
         IF ok
         THEN /\ out' = Append(out, Data(swrites[i].text, swrites[i].obj, i))
              /\ inbuf' = Append(inbuf, Data(swrites[i].text, swrites[i].obj, i))
              /\ swrites' = [swrites EXCEPT ![i].pc = "done"]
              /\ UNCHANGED outBroken
         ELSE /\ swrites' = [swrites EXCEPT ![i].pc = "done",
                                            ![i].err = ErrPlain("write failed")]
              /\ outBroken' = TRUE
              /\ UNCHANGED <<out, inbuf>>
    /\ outMux' = 0
    /\ UNCHANGED <<streamRest, header, sreads, decErr, peers>>

\* the peer sends a message of its own
StreamPeer ==
    /\ peers < MaxPeers
    /\ outMux = 0
    /\ \E blk \in PeerBlocks : inbuf' = inbuf \o blk
    /\ peers' = peers + 1
    /\ UNCHANGED <<streamRest, header, out, sreads, decErr, outMux, outBroken, swrites>>

\* streamTransport.Read, between two messages of the writer
StreamRead ==
    /\ Len(sreads) < MaxStreamReads
    /\ outMux = 0
    /\ LET r == IF header THEN ReadFramed(inbuf) ELSE Decode(inbuf, decErr) IN
         /\ sreads' = Append(sreads,
                [err |-> r.err, body |-> r.body, seen |-> r.seen, block |-> r.block,
                 empty |-> inbuf = <<>>, peers |-> peers])
         /\ inbuf' = r.rest
         /\ decErr' = IF header THEN decErr ELSE r.kept
    /\ UNCHANGED <<streamRest, header, out, outMux, outBroken, swrites, peers>>

StreamNext ==
    \/ StreamWrite
    \/ \E i \in 1..MaxWrites : i <= Len(swrites) /\ StreamLock(i)
    \/ \E i \in 1..MaxWrites : i <= Len(swrites) /\ StreamHeader(i)
    \/ \E i \in 1..MaxWrites : i <= Len(swrites) /\ StreamData(i)
    \/ StreamPeer
    \/ StreamRead

SpecStream == StreamInit /\ [][StreamNext]_vars

(***************************************************************************)
(* SpecFramed: Server.read and Server.response over a streamTransport with *)
(* header framing whose input is a socket.  The peer sends messages, well  *)
(* formed ones (written by streamTransport.Write) and malformed ones; a    *)
(* Read that runs out of input waits for more.  swrites holds the messages *)
(* of the peer, and every piece of the stream the number of its message.   *)
(***************************************************************************)
MaxFramed == 2        \* messages the peer sends
MaxFramedReads == 3   \* calls of Server.read

FramedRequests ==
    { Body(Version, NumID(1), "f1", Raw("5"), NilRaw, NilError),
      Body(Version, NilID, "f1", Raw("5"), NilRaw, NilError),
      Body(Version, NumID(1), "", NilRaw, Raw("6"), NilError) }

\* a message as streamTransport.Write emits it
WellFormed(v, k) ==
    HeaderBlock(Len(MarshalBody(v).text), k)
        \o <<Data(MarshalBody(v).text, MarshalBody(v).obj, k)>>

\* messages whose header block is not what Read accepts
Malformed(k) ==
    { <<Line("Content-Length", "NaN", k), Blank(k), Data("{ }", <<>>, k)>>,
      <<BadLine("Content-Type-xx", k), Blank(k), Data("{}", <<>>, k)>>,
      <<Line("Content-Type", "text/xml", k), Blank(k), Data("{}", <<>>, k)>>,
      <<Line("Content-length", "-1", k), Blank(k), Data("{}", <<>>, k)>>,
      <<Line("Content-Type", "application/json", k), Blank(k),
        Data("{\"jsonrpc\":\"2.0\"}", <<Member("jsonrpc", JString(Version))>>, k)>> }
    \cup { <<BadLine("User-Agent", k)>> \o WellFormed(v, k) : v \in FramedRequests }

FramedInit ==
    /\ InitServer
    /\ before = "nil"
    /\ errHandler = FALSE
    /\ errlog \in BOOLEAN
    /\ InitConn
    /\ registers = <<>>
    /\ header = TRUE
    /\ out = <<>>
    /\ inbuf = <<>>
    /\ sreads = <<>>
    /\ decErr = ErrNil
    /\ outMux = 0
    /\ outBroken = FALSE
    /\ swrites = <<>>
    /\ peers = 0
    /\ InitMore

framedRest == <<serverVars, unique, callbacks, closed, closeErr, cancelled, servePC, serveRet,
                wg, tasks, sends, errHandled, panicked, registers, header, out, decErr,
                outMux, outBroken, moreVars>>

\* the peer sends a well-formed message
FramedSend ==
    /\ peers < MaxFramed
    /\ \E v \in FramedRequests :
         /\ inbuf' = inbuf \o WellFormed(v, peers + 1)
         /\ swrites' = Append(swrites, [good |-> TRUE, v |-> v])
    /\ peers' = peers + 1
    /\ UNCHANGED <<framedRest, sreads, readLog, writes, logged, calls, srvBody>>

\* the peer sends a malformed message
FramedSendBad ==
    /\ peers < MaxFramed
    /\ \E blk \in Malformed(peers + 1) :
         /\ inbuf' = inbuf \o blk
         /\ swrites' = Append(swrites, [good |-> FALSE, v |-> EmptyBody])
    /\ peers' = peers + 1
    /\ UNCHANGED <<framedRest, sreads, readLog, writes, logged, calls, srvBody>>

\* the Read would run out of input: on a socket it waits
Blocked(buf) == ReadFramed(buf).err \in {EOF, ErrUnexpectedEOF}

\* the messages whose pieces a Read took from buf, leaving rest
Taken(buf, rest) == { buf[i].by : i \in 1..(Len(buf) - Len(rest)) }

\* Conn.Serve: conn.server.read(conn.transport), over streamTransport.Read,
\* and conn.printErr of its error
FramedRead ==
    /\ srvBody = NoBody
    /\ Len(sreads) < MaxFramedReads
    /\ ~Blocked(inbuf)
    /\ \E ok \in BOOLEAN :
         LET rd == ReadFramed(inbuf)
             r == ServerRead([err |-> rd.err, body |-> rd.body])
             at == Len(readLog) + 1
             failed == r.write # NoBody /\ ~ok
         IN
         /\ sreads' = Append(sreads,
                [err |-> rd.err, body |-> rd.body, seen |-> rd.seen, block |-> rd.block,
                 empty |-> FALSE, peers |-> peers, from |-> Taken(inbuf, rd.rest),
                 ret |-> IF failed THEN NoBody ELSE r.body])
         /\ readLog' = Append(readLog, [err |-> rd.err, body |-> rd.body])
         /\ inbuf' = rd.rest
         /\ writes' = IF r.write = NoBody THEN writes ELSE Write(r.write, ok, "read", at)
         /\ logged' = IF failed THEN PrintErr("read", at) ELSE logged
         /\ srvBody' = IF failed THEN NoBody ELSE r.body
    /\ UNCHANGED <<framedRest, swrites, peers, calls>>

FramedNext == FramedSend \/ FramedSendBad \/ FramedRead \/ SrvResponse \/ SrvSkip

SpecFramed == FramedInit /\ [][FramedNext]_vars

(***************************************************************************)
(* SpecPending: the Conn after two calls of Send have returned: the        *)
(* requests "0" and "1" are written and their callbacks stored.  The serve *)
(* loop then reads what the peer sends.                                    *)
(***************************************************************************)
SentRequest(n) ==
    [v |-> Body(Version, StrID(FormatInt(n - 1)), "f1", Raw(Marshal(IntVal(5)).json), NilRaw,
                NilError),
     ok |-> TRUE, by |-> "request", at |-> n, n |-> 1]
SentCall(n) == [notify |-> FALSE, id |-> StrID(FormatInt(n - 1)), pc |-> "done", err |-> ErrNil]

PendingInit ==
    /\ servers = [m \in {"f1"} |-> "inc"]
    /\ matchers = <<>>
    /\ before = "nil"
    /\ errHandler = FALSE
    /\ errlog = TRUE
    /\ unique = 2
    /\ callbacks = Store(Store(<<>>, "0", 1), "1", 2)
    /\ writes = {SentRequest(1), SentRequest(2)}
    /\ sends = <<SentCall(1), SentCall(2)>>
    /\ closed = 0
    /\ closeErr = ErrNil
    /\ readLog = <<>>
    /\ cancelled = FALSE
    /\ servePC = "select"
    /\ serveRet = ErrNil
    /\ wg = 0
    /\ tasks = <<>>
    /\ logged = {}
    /\ errHandled = <<>>
    /\ calls = {}
    /\ panicked = FALSE
    /\ srvBody = NoBody
    /\ InitOther

PendingNext ==
    \/ Cancel
    \/ ServeDone
    \/ ServeDefault
    \/ ServeRead
    \/ ServeReadDeadline
    \/ ServeWait
    \/ TaskStart
    \/ TaskWrite
    \/ TaskCall

SpecPending == PendingInit /\ [][PendingNext]_vars

(***************************************************************************)
(* SpecClose: the Conn of Spec on a transport built with a close function, *)
(* whose owner calls Transport.Close again once it is closed.              *)
(***************************************************************************)
MaxCloses == 3     \* calls of Transport.Close

\* streamTransport.Close, called on a transport that is closed already:
\* s.close is not nil, so it is called and its result returned.  closed
\* counts the calls of s.close.
TransportClose ==
    /\ closed >= 1
    /\ closed < MaxCloses
    /\ closed' = closed + 1
    /\ closeErr' \in {ErrNil, ErrPlain("close")}
    /\ UNCHANGED <<serverVars, otherVars, unique, callbacks, writes, readLog, cancelled, servePC,
                   serveRet, wg, tasks, sends, logged, errHandled, calls, panicked, srvBody>>

CloseNext == Next \/ TransportClose

SpecClose == Init /\ [][CloseNext]_vars

(***************************************************************************)
(* SpecID: an ID is encoded by ID.MarshalJSON and the text is decoded by   *)
(* ID.UnmarshalJSON into an ID that may have held a value before.          *)
(***************************************************************************)
IDNumbers == (0 - MaxInt)..MaxInt
IDStrings == {"", "0", "1", "12", "-1", "a", "1a", "a\"b", "\\", "<"}
IDs == {NumID(n) : n \in IDNumbers} \cup {StrID(str) : str \in IDStrings}
\* the IDs decoded into: the zero value &ID{} and IDs used before
Receivers == {StrID(""), NumID(7), StrID("a")}

NumberTexts == {<<FormatInt(n), n>> : n \in IDNumbers}
StringTexts == {<<Quote(str), str>> : str \in IDStrings}

\* json.Unmarshal(data, &id.number)
UnmarshalNumber(data) ==
    IF \E p \in NumberTexts : p[1] = data
    THEN [ok |-> TRUE, n |-> (CHOOSE p \in NumberTexts : p[1] = data)[2]]
    ELSE [ok |-> FALSE, n |-> 0]

\* json.Unmarshal(data, &id.alpha)
UnmarshalString(data) ==
    IF \E p \in StringTexts : p[1] = data
    THEN [ok |-> TRUE, s |-> (CHOOSE p \in StringTexts : p[1] = data)[2]]
    ELSE [ok |-> FALSE, s |-> ""]

\* ID.UnmarshalJSON that leaves isNumber as it was when the text is a string.
UnmarshalJSON_KeepsVariant(id, data) ==
    IF UnmarshalNumber(data).ok
    THEN [ok |-> TRUE, id |-> [id EXCEPT !.number = UnmarshalNumber(data).n, !.isNumber = TRUE]]
    ELSE IF UnmarshalString(data).ok
    THEN [ok |-> TRUE, id |-> [id EXCEPT !.alpha = UnmarshalString(data).s]]
    ELSE [ok |-> FALSE, id |-> id]

\* ID.UnmarshalJSON on the receiver id
UnmarshalJSON(id, data) ==
    IF UnmarshalNumber(data).ok
    THEN [ok |-> TRUE, id |-> [id EXCEPT !.number = UnmarshalNumber(data).n, !.isNumber = TRUE]]
    ELSE IF UnmarshalString(data).ok
    THEN [ok |-> TRUE, id |-> [id EXCEPT !.isNumber = FALSE, !.alpha = UnmarshalString(data).s]]
    ELSE [ok |-> FALSE, id |-> [id EXCEPT !.isNumber = FALSE]]

idRest == <<serverVars, connVars, srvBody, readLog, writes, calls, registers, streamVars,
            deadlines, udpVars>>

IDInit ==
    /\ InitServer
    /\ before = "nil"
    /\ errHandler = FALSE
    /\ errlog = FALSE
    /\ InitConn
    /\ registers = <<>>
    /\ InitStream
    /\ InitUDP
    /\ deadlines = 0
    /\ idIn \in IDs
    /\ idRecv \in Receivers
    /\ idText = ""
    /\ idOut = idRecv
    /\ idPC = "new"

\* id.MarshalJSON()
IDMarshal ==
    /\ idPC = "new"
    /\ idText' = MarshalID(idIn).text
    /\ idPC' = "encoded"
    /\ UNCHANGED <<idRest, idIn, idRecv, idOut>>

\* id.UnmarshalJSON(data)
IDUnmarshal ==
    /\ idPC = "encoded"
    /\ idOut' = UnmarshalJSON(idRecv, idText).id
    /\ idPC' = IF UnmarshalJSON(idRecv, idText).ok THEN "decoded" ELSE "failed"
    /\ UNCHANGED <<idRest, idIn, idRecv, idText>>

IDNext == IDMarshal \/ IDUnmarshal

SpecID == IDInit /\ [][IDNext]_vars

(***************************************************************************)
(* SpecUDP: the udp of NewUDPTransport(header, conn, false, timeout) under *)
(* a Conn: the serve loop calls udp.Read, one call after the other, and a  *)
(* goroutine per datagram read calls udp.Write, once, or twice when the    *)
(* stream writes a header.  addrMux is taken when no conflicting holder    *)
(* exists.  A read of udp.addr by a goroutine that holds no lock while     *)
(* Read holds the write lock is a data race: it yields any address.        *)
(***************************************************************************)
MaxDatagrams == 3      \* calls of ReadFromUDP
Clients == {"c1", "c2"}

\* the source of the latest datagram whose udp.Read has stored its address
Captured ==
    LET n == IF udpRd.pc \in {"got", "locked"} THEN Len(udpIn) - 1 ELSE Len(udpIn)
        S == {k \in 1..n : udpIn[k].ok}
    IN  IF S = {} THEN "nil" ELSE udpIn[CHOOSE k \in S : \A m \in S : m <= k].src

udpRest == <<serverVars, connVars, srvBody, readLog, writes, calls, registers, streamVars,
             deadlines, idVars>>

UDPInit ==
    /\ servers = <<>>
    /\ matchers = <<>>
    /\ before = "nil"
    /\ errHandler = FALSE
    /\ errlog = FALSE
    /\ unique = 0
    /\ InitConn
    /\ registers = <<>>
    /\ header \in BOOLEAN
    /\ out = <<>>
    /\ inbuf = <<>>
    /\ sreads = <<>>
    /\ decErr = ErrNil
    /\ outMux = 0
    /\ outBroken = FALSE
    /\ swrites = <<>>
    /\ peers = 0
    /\ InitMore

\* udp.Read: conn.conn.ReadFromUDP(p) returns a datagram of a client, or an
\* error (the deadline); with an error Read returns at once
UDPReadFrom ==
    /\ udpRd.pc = "idle"
    /\ Len(udpIn) < MaxDatagrams
    /\ \/ \E c \in Clients :
            /\ udpIn' = Append(udpIn, [src |-> c, ok |-> TRUE])
            /\ udpRd' = [pc |-> "got", addr |-> c]
       \/ /\ udpIn' = Append(udpIn, [src |-> "nil", ok |-> FALSE])
          /\ udpRd' = udpRd
    /\ UNCHANGED <<udpRest, udpAddr, udpMux, udpTasks, udpSent>>

\* udp.Read: conn.addrMux.Lock()
UDPLock ==
    /\ udpRd.pc = "got"
    /\ ~udpMux.w
    /\ udpMux.r = 0
    /\ udpMux' = [udpMux EXCEPT !.w = TRUE]
    /\ udpRd' = [udpRd EXCEPT !.pc = "locked"]
    /\ UNCHANGED <<udpRest, udpAddr, udpIn, udpTasks, udpSent>>

\* udp.Read: conn.addr = addr
UDPStore ==
    /\ udpRd.pc = "locked"
    /\ udpAddr' = udpRd.addr
    /\ udpRd' = [udpRd EXCEPT !.pc = "stored"]
    /\ UNCHANGED <<udpRest, udpMux, udpIn, udpTasks, udpSent>>

\* udp.Read: conn.addrMux.Unlock(); return n, nil.  The datagram goes to a
\* goroutine that will write.
UDPUnlock ==
    /\ udpRd.pc = "stored"
    /\ udpMux' = [udpMux EXCEPT !.w = FALSE]
    /\ udpRd' = [udpRd EXCEPT !.pc = "idle"]
    /\ udpTasks' = Append(udpTasks, [for |-> udpRd.addr, pc |-> "start", held |-> FALSE,
                                     left |-> IF header THEN 2 ELSE 1])
    /\ UNCHANGED <<udpRest, udpAddr, udpIn, udpSent>>

\* udp.Write that does not take addrMux.
UDPRLock_NoMutex(i) ==
    /\ udpTasks[i].pc = "start"
    /\ udpTasks' = [udpTasks EXCEPT ![i].pc = "rlocked"]
    /\ UNCHANGED <<udpRest, udpAddr, udpMux, udpRd, udpIn, udpSent>>

\* udp.Write: conn.addrMux.RLock()
UDPRLock(i) ==
    /\ udpTasks[i].pc = "start"
    /\ ~udpMux.w
    /\ udpMux' = [udpMux EXCEPT !.r = @ + 1]
    /\ udpTasks' = [udpTasks EXCEPT ![i].pc = "rlocked", ![i].held = TRUE]
    /\ UNCHANGED <<udpRest, udpAddr, udpRd, udpIn, udpSent>>

\* udp.Write: conn.conn.WriteToUDP(b, conn.addr); without an address
\* WriteToUDP fails and nothing is sent
UDPSend(i) ==
    /\ udpTasks[i].pc = "rlocked"
    /\ \E a \in IF ~udpTasks[i].held /\ udpMux.w THEN Clients \cup {"nil"} ELSE {udpAddr} :
         udpSent' = IF a = "nil" THEN udpSent
                    ELSE Append(udpSent, [to |-> a, for |-> udpTasks[i].for, task |-> i,
                                          last |-> Captured])
    /\ udpTasks' = [udpTasks EXCEPT ![i].pc = "sent"]
    /\ UNCHANGED <<udpRest, udpAddr, udpMux, udpRd, udpIn>>

\* udp.Write: the deferred conn.addrMux.RUnlock(), and the return
UDPRUnlock(i) ==
    /\ udpTasks[i].pc = "sent"
    /\ udpMux' = IF udpTasks[i].held THEN [udpMux EXCEPT !.r = @ - 1] ELSE udpMux
    /\ udpTasks' = [udpTasks EXCEPT ![i].pc = IF udpTasks[i].left > 1 THEN "start" ELSE "done",
                                    ![i].held = FALSE,
                                    ![i].left = @ - 1]
    /\ UNCHANGED <<udpRest, udpAddr, udpRd, udpIn, udpSent>>

UDPNext ==
    \/ UDPReadFrom
    \/ UDPLock
    \/ UDPStore
    \/ UDPUnlock
    \/ \E i \in DOMAIN udpTasks : UDPRLock(i)
    \/ \E i \in DOMAIN udpTasks : UDPSend(i)
    \/ \E i \in DOMAIN udpTasks : UDPRUnlock(i)

SpecUDP == UDPInit /\ [][UDPNext]_vars

(***************************************************************************)
(* The claims.                                                             *)
(***************************************************************************)
\* The response b is a result for the request Send minted id for.
ResultFor(b, id) ==
    ~isRequest(b) /\ b.Error.nil /\ ~b.ID.nil /\ ~id.nil /\ Equal(b.ID, id)
Decodes(b) == b.Result.nil \/ UnmarshalInt(b.Result.json).ok

\* C1: once a Send has returned nil and a result response carrying its ID
\* has been dispatched, the callback of that Send has been invoked (the
\* callback is registered before its response can be matched).
C1_CallbackInvoked ==
    \A s \in DOMAIN sends : \A i \in DOMAIN tasks :
        ( /\ sends[s].pc = "done" /\ sends[s].err = ErrNil /\ ~sends[s].notify
          /\ tasks[i].pc = "done"
          /\ ResultFor(tasks[i].body, sends[s].id)
          /\ Decodes(tasks[i].body) )
        => \E j \in DOMAIN tasks : tasks[j].f = s /\ tasks[j].invoked = 1

\* The request that Read call number at yielded.
RequestAt(at) == readLog[at].body
ResponseWrites == { w \in writes : w.by = "response" }

\* C2: every response written for a request that carries an ID carries an
\* ID that is Equal to it.
C2_ResponseID ==
    \A w \in ResponseWrites :
        ~RequestAt(w.at).ID.nil => ~w.v.ID.nil /\ Equal(RequestAt(w.at).ID, w.v.ID)

C2_Witness ==
    /\ \E w \in ResponseWrites : RequestAt(w.at).ID = NumID(1) /\ ~w.v.Result.nil
    /\ \E w \in ResponseWrites : RequestAt(w.at).ID = StrID("1") /\ ~w.v.Error.nil

\* C3: nothing is written to the transport for a notification (a request
\* envelope without an ID), whatever its outcome.
C3_NotificationSilent ==
    \A w \in ResponseWrites : ~RequestAt(w.at).ID.nil

\* C4: a dispatch that found a pending callback for the ID of a result
\* response has, once finished, invoked it (the user function whenever the
\* result decodes) and left no entry for that ID in the callback table,
\* also when decoding failed or the callback returned an error.
C4_OneShot ==
    \A i \in DOMAIN tasks :
        (tasks[i].pc = "done" /\ tasks[i].found)
        => /\ ~Found(callbacks, IDString(tasks[i].body.ID))
           /\ Decodes(tasks[i].body) => tasks[i].invoked = 1

C4_Witness ==
    /\ errlog
    /\ \E i \in DOMAIN tasks :
         /\ tasks[i].pc = "done" /\ tasks[i].found /\ tasks[i].invoked = 1
         /\ [what |-> "callback", at |-> tasks[i].at] \in logged
    /\ \E i \in DOMAIN tasks :
         tasks[i].pc = "done" /\ tasks[i].found /\ ~Decodes(tasks[i].body)

\* C5: the dispatch of a response that carries an error never looks up or
\* invokes a callback; once it is finished the server's error handler has
\* been called exactly once, with that error, if one is configured, and
\* not at all if none is.
HandledBy(t) == { k \in DOMAIN errHandled : errHandled[k].at = t.at }
C5_ErrorResponse ==
    \A i \in DOMAIN tasks :
        (~isRequest(tasks[i].body) /\ ~tasks[i].body.Error.nil)
        => /\ ~tasks[i].found /\ tasks[i].invoked = 0
           /\ \A k \in HandledBy(tasks[i]) : errHandled[k].e = tasks[i].body.Error
           /\ Cardinality(HandledBy(tasks[i])) =
                 (IF errHandler /\ tasks[i].pc = "done" THEN 1 ELSE 0)

C5_Witness ==
    \E i \in DOMAIN tasks :
        /\ ~isRequest(tasks[i].body) /\ ~tasks[i].body.Error.nil
        /\ tasks[i].pc = "done"
        /\ Found(callbacks, IDString(tasks[i].body.ID))
        /\ Cardinality(HandledBy(tasks[i])) = 1

\* C6: as long as the context is not cancelled Serve stays in its loop:
\* whatever a read, a write, a handler or a callback did, Serve has not
\* returned and goes on to its next select and read.
C6_OnlyCancellationEnds ==
    ~cancelled => servePC \in {"select", "read"}

\* a read failed, the write of its error response failed too, a response
\* nobody waits for was dropped, and Serve is reading again
C6_Witness ==
    /\ ~cancelled
    /\ servePC = "read"
    /\ \E w \in writes : w.by = "read" /\ ~w.ok
    /\ \E i \in DOMAIN tasks : tasks[i].pc = "done" /\ ~isRequest(tasks[i].body)

\* C7 as stated: once Serve has observed the cancellation the transport
\* is closed and Serve returns ctx.Err().
C7_ReturnsCtxErr ==
    servePC \in {"wait", "returned"} => closed >= 1 /\ serveRet = ErrCanceled

\* C7, amended: once Serve has observed the cancellation it has called
\* Close once, and it returns ctx.Err() if Close returned nil and the
\* error of Close otherwise.
C7_ReturnsCloseErrOrCtxErr ==
    /\ servePC \in {"wait", "returned"}
         => /\ closed = 1
            /\ serveRet = (IF closeErr.kind = "nil" THEN ErrCanceled ELSE closeErr)
    /\ servePC \in {"select", "read"} => closed = 0

C7_Witness ==
    servePC = "returned" /\ closeErr.kind = "nil" /\ serveRet = ErrCanceled

\* C8: when Serve has returned, every goroutine it spawned has finished.
C8_WaitsForTasks ==
    servePC = "returned" => \A i \in DOMAIN tasks : tasks[i].pc = "done"

C8_Witness ==
    /\ servePC = "returned"
    /\ Len(tasks) = 2
    /\ \E w \in ResponseWrites : TRUE

\* the steps of the program itself: Serve, its goroutines, a Send under way
ProgramNext ==
    ServeDone \/ ServeDefault \/ ServeReadDeadline \/ ServeWait
        \/ TaskStart \/ TaskWrite \/ TaskCall \/ SendStore

\* C9: once the context is cancelled, with reads that return (the deadline
\* sentinel at the latest) and handlers that terminate, Serve returns:
\* until it has, the program always has a step left to take.
C9_ServeReturns ==
    cancelled => (servePC = "returned" \/ ENABLED ProgramNext)

\* C10 as stated: a read that fails with another error than the deadline
\* sentinel makes the server write exactly one error response, with code
\* -32700 and no ID; nothing is dispatched and no handler runs.
ReadFailed(at) == readLog[at].err.kind \notin {"nil", "deadline"}
WritesAt(at) == { w \in writes : w.at = at /\ w.by \in {"read", "response"} }
NotDispatched(at) ==
    /\ \A c \in calls : c.at # at
    /\ \A w \in WritesAt(at) : w.by = "read"
    /\ \A i \in DOMAIN tasks : tasks[i].at # at
    /\ at = Len(readLog) => srvBody = NoBody
C10_ParseError ==
    \A at \in DOMAIN readLog :
        ReadFailed(at)
        => /\ Cardinality(WritesAt(at)) = 1
           /\ \A w \in WritesAt(at) :
                ~w.v.Error.nil /\ w.v.Error.Code = CodeParseError /\ w.v.ID.nil
           /\ NotDispatched(at)

\* C10, amended: the error response, written once and without ID, carries
\* the code -32700 unless Read returned an *Error, which is written as it
\* is, with its own code; nothing is dispatched and no handler runs.
C10_ParseErrorOrOwn ==
    \A at \in DOMAIN readLog :
        ReadFailed(at)
        => /\ Cardinality(WritesAt(at)) = 1
           /\ \A w \in WritesAt(at) :
                /\ w.v.ID.nil /\ w.v.Result.nil /\ w.n = 1
                /\ w.v.Error = (IF readLog[at].err.kind = "Error" THEN readLog[at].err.e
                                ELSE NewError(CodeParseError, readLog[at].err.text))
           /\ NotDispatched(at)

C10_Witness ==
    /\ \E at \in DOMAIN readLog :
         /\ readLog[at].err.kind = "plain"
         /\ \E w \in WritesAt(at) : w.v.Error.Code = CodeParseError
    /\ \E at \in DOMAIN readLog :
         /\ readLog[at].err.kind = "Error"
         /\ \E w \in WritesAt(at) : w.v.Error.Code = CodeInvalidParams

\* The number of fields among version, id, method and params an envelope has.
FieldCount(b) ==
    (IF b.Version # "" THEN 1 ELSE 0) + (IF ~b.ID.nil THEN 1 ELSE 0)
        + (IF b.Method # "" THEN 1 ELSE 0) + (IF ~b.Params.nil THEN 1 ELSE 0)
ReadWritesAt(at) == { w \in writes : w.at = at /\ w.by = "read" }

\* C11: a successfully read envelope without version, id, method and
\* params makes the read step write exactly one error response, with code
\* -32600, and is not dispatched; an envelope that has any of the four is
\* what the read step returns for dispatch, and the read step writes
\* nothing for it.
C11_InvalidRequest ==
    /\ \A at \in DOMAIN readLog :
         readLog[at].err.kind = "nil"
         => IF FieldCount(readLog[at].body) = 0
            THEN /\ Cardinality(ReadWritesAt(at)) = 1
                 /\ \A w \in ReadWritesAt(at) :
                      /\ w.n = 1 /\ ~w.v.Error.nil /\ w.v.Result.nil
                      /\ w.v.Error.Code = CodeInvalidRequest
                 /\ NotDispatched(at)
            ELSE /\ ReadWritesAt(at) = {}
                 /\ at = Len(readLog) => srvBody \in {readLog[at].body, NoBody}
    /\ srvBody # NoBody => /\ readLog # <<>>
                           /\ srvBody = readLog[Len(readLog)].body
                           /\ FieldCount(srvBody) > 0

\* an envelope with nothing but a result was refused, and one with nothing
\* but the version is on its way to the dispatch
C11_Witness ==
    /\ Len(readLog) = 2
    /\ readLog[1].err.kind = "nil" /\ FieldCount(readLog[1].body) = 0
    /\ ~readLog[1].body.Result.nil
    /\ \E w \in ReadWritesAt(1) : w.v.Error.Code = CodeInvalidRequest
    /\ readLog[2].body = Body(Version, NilID, "", NilRaw, NilRaw, NilError)
    /\ srvBody = readLog[2].body

\* The first call of Register for the method of call i.
FirstRegister(i) ==
    CHOOSE j \in DOMAIN registers :
        /\ registers[j].method = registers[i].method
        /\ \A k \in DOMAIN registers :
             registers[k].method = registers[i].method => j <= k
Sequential == \A i \in DOMAIN registers : registers[i].alone

\* C12: after a sequence of Register calls, one after the other, the
\* first call for a name returned true and every later one false, Exists
\* is true for every name a call returned true for, and the name is bound
\* to the handler of its first registration.
C12_RegisterOnce ==
    Sequential =>
        \A i \in DOMAIN registers :
            registers[i].pc = "done"
            => /\ registers[i].ret = (i = FirstRegister(i))
               /\ Exists(registers[i].method)
               /\ servers[registers[i].method] = registers[FirstRegister(i)].h

\* f1 was registered, then refused with another handler
C12_Witness ==
    /\ Sequential /\ Configured
    /\ Len(registers) = 2
    /\ \A i \in DOMAIN registers : registers[i].method = "f1"
    /\ registers[1].h = "inc" /\ registers[2].h = "errError"
    /\ registers[1].ret /\ ~registers[2].ret
    /\ servers["f1"] = "inc"

\* The matchers, by position, whose predicate accepts the method.
Accepting(method) == { i \in DOMAIN matchers : method \in matchers[i].matcher }
FirstAccepting(method) ==
    CHOOSE i \in Accepting(method) : \A j \in Accepting(method) : i <= j
CallsAt(at) == { c \in calls : c.at = at }
ResponseWritesAt(at) == { w \in ResponseWrites : w.at = at }

\* C13: a request is handled by the handler registered under its exact
\* name if there is one, whatever the matchers accept; otherwise by the
\* handler of the first matcher, in registration order, that accepts the
\* name; and if there is none no handler runs and one error response with
\* code -32601 and the ID of the request is written.
C13_Resolution ==
    \A at \in DOMAIN readLog :
        LET req == RequestAt(at)
            m == req.Method
        IN  IF Exists(m)
            THEN CallsAt(at) # {} /\ \A c \in CallsAt(at) : c.h = servers[m]
            ELSE IF Accepting(m) # {}
            THEN /\ CallsAt(at) # {}
                 /\ \A c \in CallsAt(at) : c.h = matchers[FirstAccepting(m)].h
            ELSE /\ CallsAt(at) = {}
                 /\ Cardinality(ResponseWritesAt(at)) = 1
                 /\ \A w \in ResponseWritesAt(at) :
                      /\ ~w.v.Error.nil /\ w.v.Error.Code = CodeMethodNotFound
                      /\ ~w.v.ID.nil /\ Equal(req.ID, w.v.ID)

\* two matchers accept ok/1 and the first one registered handled it, while
\* f1, which the same matcher accepts, went to the handler registered as f1
C13_Witness ==
    /\ Len(matchers) = 2
    /\ "ok/1" \in matchers[1].matcher /\ "ok/1" \in matchers[2].matcher
    /\ matchers[1].h = "errError" /\ matchers[2].h = "inc"
    /\ Exists("f1") /\ servers["f1"] = "inc" /\ "f1" \in matchers[1].matcher
    /\ \E c \in calls : c.req.Method = "ok/1" /\ c.h = "errError"
    /\ \E c \in calls : c.req.Method = "f1" /\ c.h = "inc"

\* The error the user function returned in call c.
ReturnedBy(c) == HandlerF(c.h, c.notify, c.in).err

\* C14: when the handler called for a request with an ID returns an
\* error, exactly one response is written, without result: an *Error is
\* written as it is (code, message, data), any other error with code
\* -32603 and its text as message.
C14_HandlerError ==
    \A c \in calls :
        (~c.notify /\ ReturnedBy(c).kind # "nil")
        => /\ Cardinality(ResponseWritesAt(c.at)) = 1
           /\ \A w \in ResponseWritesAt(c.at) :
                /\ w.v.Result.nil
                /\ w.v.Error = (IF ReturnedBy(c).kind = "Error" THEN ReturnedBy(c).e
                                ELSE NewErrorWithData(CodeInternalError,
                                                      ReturnedBy(c).text, ""))

C14_Witness ==
    /\ \E c \in calls : /\ ~c.notify /\ ReturnedBy(c).kind = "Error"
                         /\ \E w \in ResponseWritesAt(c.at) :
                              w.v.Error.Code = CodeInvalidParams
    /\ \E c \in calls : /\ ~c.notify /\ ReturnedBy(c).kind = "plain"
                         /\ \E w \in ResponseWritesAt(c.at) :
                              w.v.Error.Code = CodeInternalError

\* The requests Server.response has been given and the hook refused.
Answered(at) == at < Len(readLog) \/ srvBody = NoBody
Vetoed ==
    { at \in DOMAIN readLog :
        /\ readLog[at].err.kind = "nil" /\ Answered(at)
        /\ isRequest(RequestAt(at)) /\ before # "nil"
        /\ BeforeHook(RequestAt(at).Method).kind # "nil" }

\* C15: when the before hook returns an error for the method of a
\* request, structured or plain, the error response written has code
\* -32601.
C15_HookCode ==
    \A at \in Vetoed : \A w \in ResponseWritesAt(at) :
        ~w.v.Error.nil /\ w.v.Error.Code = CodeMethodNotFound

\* C16: when the before hook returns an error for the method of a
\* request, no handler is called and exactly one response is written,
\* without result: an *Error of the hook as it is, with its own code, a
\* plain error with code -32601.
C16_HookVeto ==
    \A at \in Vetoed :
        LET veto == BeforeHook(RequestAt(at).Method) IN
        /\ CallsAt(at) = {}
        /\ Cardinality(ResponseWritesAt(at)) = 1
        /\ \A w \in ResponseWritesAt(at) :
             /\ w.v.Result.nil
             /\ w.v.Error = (IF veto.kind = "Error" THEN veto.e
                             ELSE NewErrorWithData(CodeMethodNotFound, veto.text, ""))

\* the hook refused b2, which has a handler, with its own code, and b5
C16_Witness ==
    /\ Len(readLog) = 2 /\ Vetoed = {1, 2}
    /\ RequestAt(1).Method = "b2" /\ Exists("b2")
    /\ \E w \in ResponseWritesAt(1) : w.v.Error.Code = -32111
    /\ RequestAt(2).Method = "b5"
    /\ \E w \in ResponseWritesAt(2) : w.v.Error.Code = CodeMethodNotFound

\* C17: every response the server writes carries exactly one of result
\* and error.
C17_ResultXorError ==
    \A w \in writes :
        w.by \in {"read", "response"} => (w.v.Result.nil # w.v.Error.nil)

C17_Witness ==
    /\ \E w \in writes : w.by = "response" /\ ~w.v.Result.nil /\ w.v.Error.nil
    /\ \E w \in writes : w.by = "response" /\ w.v.Result.nil /\ ~w.v.Error.nil

\* The piece of out at position k, in a stream of whole framed messages:
\* the two header lines of Write, the empty line, then the body.
Phase(k) == (k - 1) % 4
Framed(k) ==
    LET first == k - Phase(k)
        w == swrites[out[first].by]
    IN  /\ out[k].by = out[first].by
        /\ out[k] = (HeaderBlock(Len(w.text), out[first].by)
                        \o <<Data(w.text, w.obj, out[first].by)>>)[Phase(k) + 1]
Unframed(k) ==
    out[k] = Data(swrites[out[k].by].text, swrites[out[k].by].obj, out[k].by)

Emitted == SelectSeq(out, LAMBDA it : it.t = "data")
\* only the writer fed the stream, it never failed, and no Read found it empty
Loopback ==
    /\ ~outBroken
    /\ \A k \in 1..Len(sreads) : sreads[k].peers = 0 /\ ~sreads[k].empty

\* C19: in both framing modes, the k-th Read of a stream that holds what
\* Write calls emitted returns without error an envelope equal to the one
\* given to the k-th Write that emitted: one envelope per Read, in write
\* order.
C19_RoundTrip ==
    Loopback =>
        \A k \in 1..Len(sreads) :
            /\ k <= Len(Emitted)
            /\ sreads[k].err = ErrNil
            /\ sreads[k].body = swrites[Emitted[k].by].v

\* C20: with header framing, a Read that went through a header block (up
\* to its empty line) in which no line was a Content-Length header returns
\* errMissContentLength.
C20_MissingLength ==
    \A k \in 1..Len(sreads) :
        (header /\ sreads[k].block /\ ~sreads[k].seen) =>
            sreads[k].err = errMissContentLength

\* the errors of a Read that met a malformed header
HeaderErrors == {errInvalidHeader, NumError, errInvalidContentType}
\* the message a Read ended in
Last(k) == CHOOSE m \in sreads[k].from : \A n \in sreads[k].from : n <= m
\* no later Read that ends in the message in which Read k failed hands an
\* envelope to the dispatch
NothingDispatched(k) ==
    \A j \in (k + 1)..Len(sreads) :
        (sreads[j].from # {} /\ Last(j) = Last(k)) => sreads[j].ret = NoBody
\* a later Read that takes a well-formed message returns its envelope
NextReadWhole(k) ==
    \A j \in (k + 1)..Len(sreads) : \A m \in sreads[j].from :
        (m > Last(k) /\ swrites[m].good) =>
            sreads[j].err = ErrNil /\ sreads[j].ret = swrites[m].v

\* C21: with header framing, after a Read failed on a malformed header, no
\* envelope is dispatched for the message that failed, and a well-formed
\* message that follows on the stream is read as exactly that message.
C21_Resync ==
    \A k \in 1..Len(sreads) :
        (sreads[k].err \in HeaderErrors /\ sreads[k].from # {}) =>
            NothingDispatched(k) /\ NextReadWhole(k)

FramingErrors == {errInvalidHeader, errMissContentLength, errInvalidContentType}

\* C22: a framing error of a Read is handed to the log sink (when there is
\* one) and no envelope is written to the transport because of it.
C22_FramingLocal ==
    \A k \in 1..Len(sreads) :
        sreads[k].err \in FramingErrors =>
            /\ errlog => [what |-> "read", at |-> k] \in logged
            /\ \A w \in writes : ~(w.by = "read" /\ w.at = k)

\* C23: for every ID, of the integer or of the string variant, decoding
\* its JSON encoding succeeds and gives an ID that Equal()s it and has the
\* same variant, whatever the receiver held before.
C23_IDRoundTrip ==
    idPC # "encoded" =>
        (idPC = "new" \/ (idPC = "decoded" /\ Equal(idOut, idIn) /\ Equal(idIn, idOut)
                            /\ idOut.isNumber = idIn.isNumber))

\* a string made only of digits, decoded into an ID that held a number
C23_Witness ==
    /\ idPC = "decoded"
    /\ idIn = StrID("12")
    /\ idRecv = NumID(7)
    /\ idText = "\"12\""

\* C24: the underlying close function of the transport is invoked exactly
\* once: by Serve at cancellation, and not again by a Close on the closed
\* transport, which returns no error.
C24_CloseOnce ==
    /\ servePC \in {"wait", "returned"} => closed = 1
    /\ closed >= 1 /\ serveRet = ErrCanceled => closeErr = ErrNil

\* C25: a Read of Serve that ends with os.ErrDeadlineExceeded writes
\* nothing to the transport, reports nothing to the log sink, spawns no
\* task, and leaves the loop at its next cancellation check.
DeadlineStep ==
    \/ deadlines' # deadlines
    \/ servePC = "read" /\ servePC' # "read" /\ readLog' = readLog
C25_DeadlineAbsorbed ==
    [][DeadlineStep => /\ UNCHANGED <<writes, logged, tasks, wg, calls, callbacks>>
                       /\ servePC' = "select"]_vars

\* after a deadline the loop is reading again, with nothing written or
\* logged
C25_Witness ==
    /\ deadlines > 0
    /\ servePC = "read"
    /\ ~cancelled
    /\ writes = {}
    /\ logged = {}
    /\ tasks = <<>>

\* C26: the serve loop never waits for a dispatch task: whatever the tasks
\* are doing, the loop can enter its next read and the read can return;
\* an envelope read later is dispatched and answered while the handler of
\* an earlier one has not finished.
C26_NeverJoins ==
    /\ servePC = "select" /\ ~cancelled /\ ~panicked => ENABLED ServeDefault
    /\ servePC = "read" /\ ~panicked /\ Len(readLog) < MaxReads => ENABLED ServeRead

\* the request read first is still being handled, the one read second has
\* been answered
C26_Witness ==
    /\ Len(tasks) = 2
    /\ tasks[1].at = 1
    /\ isRequest(tasks[1].body)
    /\ tasks[1].pc = "start"
    /\ tasks[2].at = 2
    /\ tasks[2].pc = "done"
    /\ \E w \in writes : w.by = "response" /\ w.at = 2 /\ w.ok

\* C27: callbacks are invoked in the order in which their responses are
\* read: when the callback of a response has been invoked, no response
\* read before it still waits for the invocation of its callback.
AwaitsCallback(t) ==
    /\ t.pc = "call"
    /\ CallbackCall(t.f, t.body, ErrNil).invoked = 1
C27_ReadOrder ==
    \A i, j \in DOMAIN tasks :
        (i < j /\ tasks[j].invoked = 1 /\ tasks[j].f # tasks[i].f) => ~AwaitsCallback(tasks[i])

\* C28: when callback.call fails (the callback returned an error, or the
\* result did not decode) the failure goes to the log sink, if there is
\* one, and nowhere else: nothing is written, the transport is not closed
\* and the serve loop is where it was.
CallbackFailed(i) ==
    /\ i \in DOMAIN tasks
    /\ tasks[i].pc = "call"
    /\ tasks'[i].pc = "done"
    /\ tasks'[i].cerr.kind # "nil"
C28_CallbackFailure ==
    [][\A i \in DOMAIN tasks :
          CallbackFailed(i) =>
             /\ UNCHANGED <<writes, closed, closeErr, servePC, serveRet, cancelled, panicked,
                            errHandled, readLog>>
             /\ logged' = IF errlog
                          THEN logged \cup {[what |-> "callback", at |-> tasks[i].at]}
                          ELSE logged]_vars

\* a result that did not decode: the callback was not invoked, the failure
\* is in the log, the loop goes on reading
C28_Witness ==
    \E i \in DOMAIN tasks :
        /\ tasks[i].pc = "done"
        /\ tasks[i].found
        /\ tasks[i].invoked = 0
        /\ tasks[i].cerr.kind # "nil"
        /\ [what |-> "callback", at |-> tasks[i].at] \in logged
        /\ closed = 0
        /\ servePC = "read"
        /\ Len(readLog) > tasks[i].at

\* C29: a response that carries an ID and a result, and under whose ID the
\* callback table has no entry when it is dispatched, is reported to the
\* log sink and dropped: no callback is invoked, nothing is written and
\* the callback table is unchanged.
Unmatched(t) ==
    /\ t.pc = "start"
    /\ ~isRequest(t.body)
    /\ t.body.Error.nil
    /\ ~t.body.ID.nil
    /\ ~t.body.Result.nil
    /\ IDString(t.body.ID) \notin DOMAIN callbacks
C29_UnmatchedDropped ==
    [][\A i \in DOMAIN tasks :
          Unmatched(tasks[i]) /\ tasks'[i] # tasks[i] =>
             /\ tasks'[i] = [tasks[i] EXCEPT !.pc = "done"]
             /\ UNCHANGED <<writes, callbacks, calls, errHandled, panicked>>
             /\ logged' = IF errlog
                          THEN logged \cup {[what |-> "no callback", at |-> tasks[i].at]}
                          ELSE logged]_vars

\* the response "x" nobody asked for, while the callback of request "0"
\* is still in the table
C29_Witness ==
    \E i \in DOMAIN tasks :
        /\ tasks[i].body.ID = StrID("x")
        /\ ~tasks[i].body.Result.nil
        /\ tasks[i].pc = "done"
        /\ tasks[i].invoked = 0
        /\ ~tasks[i].found
        /\ [what |-> "no callback", at |-> tasks[i].at] \in logged
        /\ DOMAIN callbacks = {"0"}
        /\ \A w \in writes : w.by = "request"

\* C30: in UDP mode every datagram written goes to the source address of
\* the datagram read last, that is the latest one whose Read has stored its
\* address, under every interleaving of the reads with the writing
\* goroutines; udp.addr is that address whenever Read is not storing.
C30_LastAddress ==
    /\ \A k \in DOMAIN udpSent : udpSent[k].to = udpSent[k].last /\ udpSent[k].to \in Clients
    /\ udpRd.pc # "locked" => udpAddr = Captured

\* the answer to a datagram of c1 is sent to c2, whose datagram was read
\* in between
C30_Witness ==
    \E k \in DOMAIN udpSent :
        /\ udpSent[k].for = "c1"
        /\ udpSent[k].to = "c2"
        /\ udpSent[k].last = "c2"

\* C31: a response without ID and without error is handled without a
\* crash: its dispatch does not dereference the missing ID, and the
\* envelope is logged and dropped like an unmatched response.
NoIDResponse(b) == ~isRequest(b) /\ b.ID.nil /\ b.Error.nil
C31_NilIDHandled ==
    /\ ~panicked
    /\ \A i \in DOMAIN tasks :
          NoIDResponse(tasks[i].body) /\ tasks[i].pc # "start" =>
              /\ tasks[i].pc = "done"
              /\ tasks[i].invoked = 0
              /\ errlog => [what |-> "no callback", at |-> tasks[i].at] \in logged

\* C32: the callback stored by one Send is invoked at most once, also when
\* two responses with its ID are dispatched concurrently.
C32_AtMostOnce ==
    \A i, j \in DOMAIN tasks :
        (i # j /\ tasks[i].found /\ tasks[j].found /\ tasks[i].f = tasks[j].f)
            => tasks[i].invoked + tasks[j].invoked <= 1

\* C33: once an error response to a Send has been processed, the callback
\* table has no entry under its ID.
ErrorResponse(b) == ~isRequest(b) /\ ~b.Error.nil /\ ~b.ID.nil
C33_ErrorClearsCallback ==
    \A i \in DOMAIN tasks :
        (tasks[i].pc = "done" /\ ErrorResponse(tasks[i].body))
            => IDString(tasks[i].body.ID) \notin DOMAIN callbacks

\* C34: a callback is found, and invoked, only for a response whose ID
\* Equal()s the ID of the request it was stored for.
C34_EqualID ==
    \A i \in DOMAIN tasks :
        tasks[i].found =>
            /\ Equal(tasks[i].body.ID, sends[tasks[i].f].id)
            /\ Equal(sends[tasks[i].f].id, tasks[i].body.ID)

\* C35: Serve does not close the transport while a task it spawned is
\* running: when Close has been called every task has ended, so no task
\* writes to the closed transport.
C35_CloseAfterTasks ==
    closed >= 1 => \A i \in DOMAIN tasks : tasks[i].pc \notin {"start", "write", "call"}

\* C36: once ctx is cancelled the loop starts no read; the read under way
\* at that moment may return, once, and the envelope it yields gets its
\* goroutine while the transport is still open.
C36_NoReadAfterCancel ==
    [][/\ cancelled /\ servePC # "read" => servePC' # "read"
       /\ cancelled /\ readLog' # readLog =>
            /\ servePC = "read"
            /\ servePC' = "select"
            /\ closed' = 0
            /\ ServerRead(readLog'[Len(readLog')]).body # NoBody =>
                 /\ Len(tasks') = Len(tasks) + 1
                 /\ tasks'[Len(tasks')].body = ServerRead(readLog'[Len(readLog')]).body
                 /\ tasks'[Len(tasks')].at = Len(readLog')]_vars

\* the read that was under way at the cancellation returned a request; its
\* goroutine has run and Serve has returned
C36_Witness ==
    /\ servePC = "returned"
    /\ \E i \in DOMAIN tasks :
          /\ tasks[i].late
          /\ tasks[i].at = Len(readLog)
          /\ isRequest(tasks[i].body)
          /\ tasks[i].pc = "done"

\* C37: every envelope the serve loop read without error, unless it is
\* empty, has exactly one goroutine, and no other read has one; a request
\* leads to at most one call of a handler and at most one response write.
TasksOf(k) == {i \in DOMAIN tasks : tasks[i].at = k}
C37_ExactlyOnce ==
    /\ \A i \in DOMAIN tasks : tasks[i].at \in DOMAIN readLog
    /\ \A k \in DOMAIN readLog :
          /\ IF readLog[k].err = ErrNil /\ ~isEmptyRequest(readLog[k].body)
             THEN /\ Cardinality(TasksOf(k)) = 1
                  /\ \A i \in TasksOf(k) : tasks[i].body = readLog[k].body
             ELSE TasksOf(k) = {}
          /\ Cardinality({c \in calls : c.at = k}) <= 1
          /\ Cardinality({w \in writes : w.by = "response" /\ w.at = k}) <= 1

\* two envelopes read: a notification whose handler ran, and a request
\* whose handler ran and whose response is written
C37_Witness ==
    /\ Len(readLog) = 2
    /\ Len(tasks) = 2
    /\ \A i \in DOMAIN tasks : tasks[i].pc = "done" /\ isRequest(tasks[i].body)
    /\ \E i \in DOMAIN tasks : tasks[i].body.ID.nil
    /\ Cardinality(calls) = 2
    /\ Cardinality({w \in writes : w.by = "response" /\ w.ok}) = 1

\* C38: of the calls of Register for one method name, overlapping or not,
\* at most one returns true, and the handler bound to the name is the one
\* of the call that returned true.
Registered(i) == registers[i].pc = "done" /\ registers[i].ret
C38_OneWinner ==
    /\ \A i, j \in DOMAIN registers :
          (Registered(i) /\ Registered(j) /\ registers[i].method = registers[j].method)
              => i = j
    /\ \A i \in DOMAIN registers :
          (Configured /\ Registered(i)) => servers[registers[i].method] = registers[i].h

\* C39: a Send or Notify whose Write failed has returned the error of the
\* Write and no callback is stored for it; no callback is stored for a
\* Notify.
NoEntry(i) == \A k \in DOMAIN callbacks : callbacks[k] # i
WriteFailed(i) == \E w \in writes : w.by = "request" /\ w.at = i /\ ~w.ok
C39_FailedSend ==
    \A i \in DOMAIN sends :
        /\ WriteFailed(i) =>
              /\ sends[i].err = ErrPlain("write")
              /\ sends[i].pc = "done"
              /\ NoEntry(i)
        /\ sends[i].notify => sends[i].pc = "done" /\ NoEntry(i)

\* a Send whose Write failed, with the serve loop reading afterwards
C39_Witness ==
    /\ Len(sends) = 1
    /\ ~sends[1].notify
    /\ WriteFailed(1)
    /\ sends[1].err = ErrPlain("write")
    /\ callbacks = <<>>
    /\ Len(readLog) >= 1

\* C40: the dispatch of a response (an envelope without method and without
\* params) writes nothing to the transport, whatever it carries: no
\* response is written for the read that yielded it, and its task has
\* nothing to write.
IsResponse(b) == b.Method = "" /\ b.Params.nil
C40_ResponseSilent ==
    /\ \A w \in writes :
          w.by = "response" => w.at \in DOMAIN readLog /\ ~IsResponse(readLog[w.at].body)
    /\ \A i \in DOMAIN tasks :
          IsResponse(tasks[i].body) => tasks[i].w = NoBody /\ tasks[i].pc # "write"

\* a result response to a pending request and an error response, both
\* dispatched; the only Write was the request of the Send
C40_Witness ==
    /\ Len(tasks) = 2
    /\ \A i \in DOMAIN tasks : IsResponse(tasks[i].body) /\ tasks[i].pc = "done"
    /\ \E i \in DOMAIN tasks : tasks[i].invoked = 1
    /\ \E i \in DOMAIN tasks : ~tasks[i].body.Error.nil
    /\ \A w \in writes : w.by = "request"
    /\ writes # {}

====
